---------------------------- MODULE Spec2Model ----------------------------
(***************************************************************************)
(* A model of the MediaWiki entity-metadata extractor:                     *)
(*   inheritance_utils.py  collect_inheritance_relationships,              *)
(*                         topological_sort, calculate_base_index          *)
(*   extract.py            parse_wikitable, parse_entities_table,          *)
(*                         _find_section_lines, _parse_section_by_name,    *)
(*                         parse_metadata_sections, extract                *)
(*   analyze_complete.py   analyze_entity_changes, analyze_metadata_changes*)
(*                                                                         *)
(* Strings the code takes apart character by character (section names,     *)
(* which go through to_snake_case) are sequences of one-character strings. *)
(* Python's None and "" are both the empty sequence where the code only    *)
(* tests truthiness (inherit_map values, `if parent`, `while current`).    *)
(* Iteration over a Python set of str (hash-randomised) is a               *)
(* nondeterministic choice of the order.                                   *)
(***************************************************************************)
EXTENDS Integers, Sequences, FiniteSets, TLC

VARIABLES
    pc,               \* position of the run: which step comes next
    lines,            \* extract.py:255 the document, a sequence of line records
    metadata_lines,   \* extract.py:277 the lines parse_metadata_sections is given
    cursor,           \* extract.py:228 how many of sorted_sections are parsed
    name_to_entity_id,\* extract.py:261 display name -> entity id
    section_names,    \* inheritance_utils.py:20 discovery order of headers
    inherit_map,      \* inheritance_utils.py:21 child -> parent
    dependencies,     \* inheritance_utils.py:49 section -> set of parents left
    queue,            \* inheritance_utils.py:60 Kahn's ready queue
    sorted_sections,  \* inheritance_utils.py:59 output order
    by_name_result,   \* extract.py:219 section name -> {inherits, fields}
    parse_order,      \* insertion order of the by_name_result dict
    base_of,          \* what calculate_base_index returned per section
    rows_of,          \* the table rows the row loop of each section went through
    converted_result, \* extract.py:242 key -> section data
    entities,         \* extract.py:71 the entity dict, in insertion order
    metadata_start,   \* extract.py:267 line of the Entity Metadata header
    version_data,     \* analyze_complete.py:7 version -> snapshot
    report,           \* the entries a differ reports, with their rows
    cell_text,        \* text_utils.py:53 the text cleanup_cell_text is given
    cleaned,          \* text_utils.py:69 what cleanup_cell_text returned
    wikitable,        \* extract.py:29 the locals of parse_wikitable: i, headers, rows, current_row
    txt_files,        \* main.py:132 sorted(txt_files): the documents in the order of their file names
    file_index,       \* main.py:132 how many documents the loop has gone through
    outputs,          \* main.py:95 position of a document -> the snapshot written for it
    errors,           \* main.py:137 the documents reported as failed, in the order of the reports
    base_walk,        \* inheritance_utils.py:90 the locals of calculate_base_index
    scan              \* extract.py:72 the locals of a loop that scans for tables: i, end_line, the fields so far

vars == <<pc, lines, metadata_lines, cursor, name_to_entity_id, section_names, inherit_map,
          dependencies, queue, sorted_sections, by_name_result, parse_order,
          base_of, rows_of, converted_result, entities, metadata_start,
          version_data, report,
          cell_text, cleaned,
          wikitable,
          txt_files, file_index, outputs, errors,
          base_walk,
          scan>>

-----------------------------------------------------------------------------
(* Bounds of the model *)

\* how many names of NameUniverse a document may use
NumNames == 3

-----------------------------------------------------------------------------
(* Generic helpers *)

Range(s) == {s[i] : i \in DOMAIN s}

IsInjective(s) == \A i, j \in DOMAIN s : s[i] = s[j] => i = j

\* every order in which the elements of the finite set S can be listed
Perms(S) == {s \in [1..Cardinality(S) -> S] : Range(s) = S}

\* the position of x in the sequence s, 0 when absent
IndexOf(s, x) == IF \E i \in DOMAIN s : s[i] = x
                 THEN CHOOSE i \in DOMAIN s : s[i] = x /\ \A j \in 1..(i-1) : s[j] # x
                 ELSE 0

EmptyMap == [x \in {} |-> <<>>]

\* dict.get(key) with None rendered as the empty sequence
Get(map, key) == IF key \in DOMAIN map THEN map[key] ELSE <<>>

\* dict[key] = value
Put(map, key, value) ==
    [x \in DOMAIN map \cup {key} |-> IF x = key THEN value ELSE map[x]]

-----------------------------------------------------------------------------
(* Section names *)

NoName == <<>>

NameUniverse ==
    << <<"M","o","b">>, <<"B","a","t">>, <<"m","o","b">>,
       <<"C","o","w">>, <<"P","i","g">> >>

Names == {NameUniverse[i] : i \in 1..NumNames}

-----------------------------------------------------------------------------
(* inheritance_utils.py: topological_sort *)

\* lines 52-56: the parent of a section counts only when it is a known section
Dependencies(names, imap) ==
    [s \in Range(names) |->
        LET parent == Get(imap, s)
        IN  IF parent # NoName /\ parent \in Range(names) THEN {parent} ELSE {}]

\* lines 52-56: dependents[parent], the sections that recorded parent
Dependents(names, imap, parent) ==
    {s \in Range(names) : Get(imap, s) = parent /\ parent # NoName}

\* lines 63-65: the sections without dependencies, in discovery order
InitialQueue(names, deps) == SelectSeq(names, LAMBDA s : deps[s] = {})

\* lines 68-75, one pass of the while loop; ord is the order in which the
\* set dependents[current] is iterated
Dequeue(k, names, imap, ord) ==
    LET current == Head(k.queue)
        touched == Dependents(names, imap, current)
        deps2   == [s \in DOMAIN k.deps |->
                      IF s \in touched THEN k.deps[s] \ {current} ELSE k.deps[s]]
    IN  [deps   |-> deps2,
         queue  |-> Tail(k.queue) \o SelectSeq(ord, LAMBDA d : deps2[d] = {}),
         sorted |-> Append(k.sorted, current)]

\* a sort that forgets the sections the queue never reached
RemainingDropped(names, sorted) == {}

\* line 78: set(section_names) - set(sorted_sections)
Remaining(names, sorted) == Range(names) \ Range(sorted)

\* every list topological_sort can return: the loop of lines 67-75 run to the
\* end under every iteration order, then the leftovers in every order
RECURSIVE KahnOutcomes(_, _, _)
KahnOutcomes(k, names, imap) ==
    IF k.queue = <<>>
    THEN {k.sorted \o rest : rest \in Perms(Remaining(names, k.sorted))}
    ELSE UNION {KahnOutcomes(Dequeue(k, names, imap, ord), names, imap) :
                  ord \in Perms(Dependents(names, imap, Head(k.queue)))}

topological_sort(names, imap) ==
    LET deps == Dependencies(names, imap)
    IN  KahnOutcomes([deps |-> deps, queue |-> InitialQueue(names, deps),
                      sorted |-> <<>>], names, imap)

-----------------------------------------------------------------------------
(* Lines of a document.  A line is classified the way the regular          *)
(* expressions of extract.py:14-18 and inheritance_utils.py:9-12 classify  *)
(* it; positions are 1-based (Python's index + 1).  A text (a cell, a      *)
(* meaning) is a sequence of chunks, "" being the empty sequence, so that  *)
(* `a += " " + b` is a concatenation the model can see.                    *)

\* more: the parents of the declarations written on the line after its
\* first one
Line(kind, text, name, parent) ==
    [kind |-> kind, text |-> text, name |-> name, parent |-> parent, more |-> <<>>]

OpenLine      == Line("open", <<"{| class=wikitable">>, NoName, NoName)
CloseLine     == Line("close", <<>>, NoName, NoName)
SepLine       == Line("sep", <<>>, NoName, NoName)
CellLine(t)   == Line("cell", t, NoName, NoName)
HCellLine(t)  == Line("hcell", t, NoName, NoName)
TextLine(t)   == Line("text", t, NoName, NoName)
BlankLine     == Line("blank", <<>>, NoName, NoName)
NoMetaLine    == Line("nometa", <<"No additional metadata.">>, NoName, NoName)
HeaderLine(n) == Line("header", <<"=== header ===">>, n, NoName)
InheritLine(n, p) == Line("inherit", <<>>, n, p)
\* a line with two declarations for the child n, the parent p and then q
InheritTwiceLine(n, p, q) == [InheritLine(n, p) EXCEPT !.more = <<q>>]
MetaHdrLine   == Line("metahdr", <<"== Entity Metadata ==">>, NoName, NoName)

\* extract.py:14 WIKITABLE_START_PATTERN
IsTableStart(l) == l.kind = "open"
\* extract.py:15 WIKITABLE_END_PATTERN
IsTableEnd(l) == l.kind = "close"
\* extract.py:16 ROW_SEPARATOR_PATTERN
IsRowSeparator(l) == l.kind = "sep"
\* extract.py:17 HEADER_CELL_PATTERN
IsHeaderCell(l) == l.kind = "hcell"
\* extract.py:18 DATA_CELL_PATTERN: any line that starts with "|"
IsDataCell(l) == l.kind \in {"cell", "sep", "close"}
\* extract.py:59: non-empty and not starting with "|"
IsContinuation(l) == l.kind \notin {"blank", "cell", "sep", "close"}
\* inheritance_utils.py:9 SECTION_HEADER_RE
IsSectionHeader(l) == l.kind = "header"
\* inheritance_utils.py:10 INHERIT_RE
IsInherit(l) == l.kind = "inherit"
\* extract.py:159
IsNoMetadata(l) == l.kind = "nometa"
\* extract.py:269
IsMetadataHeader(l) == l.kind = "metahdr"

-----------------------------------------------------------------------------
(* Characters.  A text is a sequence of chunks: a chunk is one character   *)
(* or a piece of text or markup that the patterns treat as a whole.        *)

UpperChars == <<"A","B","C","D","E","F","G","H","I","J","K","L","M",
                "N","O","P","Q","R","S","T","U","V","W","X","Y","Z">>
LowerChars == <<"a","b","c","d","e","f","g","h","i","j","k","l","m",
                "n","o","p","q","r","s","t","u","v","w","x","y","z">>
DigitChars == <<"0","1","2","3","4","5","6","7","8","9">>

\* the character U+00B2 SUPERSCRIPT TWO, written in ASCII
SuperscriptTwo == "^2"

\* the characters str.isdigit accepts: the decimal digits and the characters
\* of Unicode numeric type Digit, of which U+00B2 is one
IsdigitChars == Range(DigitChars) \cup {SuperscriptTwo}

AlnumChars == Range(UpperChars) \cup Range(LowerChars) \cup Range(DigitChars)

SpaceChars == {" ", "\t"}

Lower(c) == IF c \in Range(UpperChars) THEN LowerChars[IndexOf(UpperChars, c)] ELSE c

\* a character class: the members of chars when member, the others when not
InClass(c, chars, member) == (c \in chars) = member

\* str.strip over the characters of a class
RECURSIVE StripLeft(_, _, _)
StripLeft(s, chars, member) ==
    IF s # <<>> /\ InClass(Head(s), chars, member)
    THEN StripLeft(Tail(s), chars, member) ELSE s

RECURSIVE StripRight(_, _, _)
StripRight(s, chars, member) ==
    IF s # <<>> /\ InClass(s[Len(s)], chars, member)
    THEN StripRight(SubSeq(s, 1, Len(s) - 1), chars, member) ELSE s

Strip(s, chars, member) == StripRight(StripLeft(s, chars, member), chars, member)

-----------------------------------------------------------------------------
(* text_utils.py: the cleaning of a cell *)

\* the chunks that are HTML tags, the ones "<[^>]+>" matches
HtmlTags == {"<code>", "</code>", "<br>"}

\* the chunks '^(?:rowspan|colspan)="?\d+"?\|' matches
SpanPrefixes == {"rowspan=2|", "colspan=2|"}

\* the chunks '^style="[^"]*"\|' matches
StylePrefixes == {"style=\"a\"|"}

\* lines 17-19: every <code> that a </code> follows loses both tags and keeps
\* what is between them; the search goes on after the </code>
RECURSIVE StripCodeFrom(_, _)
StripCodeFrom(text, i) ==
    IF i > Len(text) THEN <<>>
    ELSE IF text[i] = "<code>" /\ \E j \in (i + 1)..Len(text) : text[j] = "</code>"
         THEN LET j == CHOOSE k \in (i + 1)..Len(text) :
                           /\ text[k] = "</code>"
                           /\ \A m \in (i + 1)..(k - 1) : text[m] # "</code>"
              IN  SubSeq(text, i + 1, j - 1) \o StripCodeFrom(text, j + 1)
         ELSE <<text[i]>> \o StripCodeFrom(text, i + 1)

strip_code_tags(text) == StripCodeFrom(text, 1)

\* lines 22-28: [[target|label]] becomes label, [[target]] becomes target
LinkText(chunk) ==
    CASE chunk = "[[a|b]]" -> <<"b">>
      [] chunk = "[[a]]"   -> <<"a">>
      [] OTHER             -> <<chunk>>

RECURSIVE strip_wikilinks(_)
strip_wikilinks(text) ==
    IF text = <<>> THEN <<>>
    ELSE LinkText(Head(text)) \o strip_wikilinks(Tail(text))

\* lines 31-41: {{Type|x}} becomes x, any other template disappears
TemplateText(chunk) ==
    CASE chunk = "{{Type|x}}" -> <<"x">>
      [] chunk = "{{t}}"      -> <<>>
      [] OTHER                -> <<chunk>>

RECURSIVE strip_templates(_)
strip_templates(text) ==
    IF text = <<>> THEN <<>>
    ELSE TemplateText(Head(text)) \o strip_templates(Tail(text))

\* line 49: every run of whitespace becomes one space
RECURSIVE CollapseSpaces(_)
CollapseSpaces(text) ==
    IF text = <<>> THEN <<>>
    ELSE IF Head(text) \in SpaceChars
         THEN <<" ">> \o CollapseSpaces(StripLeft(text, SpaceChars, TRUE))
         ELSE <<Head(text)>> \o CollapseSpaces(Tail(text))

\* lines 44-50
normalize_whitespace(text) ==
    IF text = <<>> THEN <<>> ELSE Strip(CollapseSpaces(text), SpaceChars, TRUE)

\* lines 62 and 63: re.sub with a pattern anchored at the start removes one
\* prefix, and the whitespace after it, when the text starts with one
RemovePrefix(text, prefixes) ==
    IF text # <<>> /\ Head(text) \in prefixes
    THEN StripLeft(Tail(text), SpaceChars, TRUE)
    ELSE text

\* line 66
RemoveHtmlTags(text) == SelectSeq(text, LAMBDA c : c \notin HtmlTags)

\* lines 53-69: each line of the function works on the value the line
\* before it assigned to text; a set here holds that one value
cleanup_cell_text(text) ==
    IF text = <<>> THEN <<>>
    ELSE LET t57 == {strip_code_tags(text)}
             t58 == {strip_wikilinks(t) : t \in t57}
             t59 == {strip_templates(t) : t \in t58}
             t62 == {RemovePrefix(t, SpanPrefixes) : t \in t59}
             t63 == {RemovePrefix(t, StylePrefixes) : t \in t62}
             t66 == {RemoveHtmlTags(t) : t \in t63}
             t68 == {normalize_whitespace(t) : t \in t66}
         IN  CHOOSE t \in t68 : TRUE

-----------------------------------------------------------------------------
(* extract.py: parse_wikitable *)

\* lines 30-32: headers, rows and current_row when the loop starts; closed
\* tells that the loop met the close marker and left by the break of line 44
NoTable == [headers |-> <<>>, rows |-> <<>>, current_row |-> <<>>, closed |-> FALSE]

\* the line made a cell of its own
MergeAsNewCell(current_row, stripped) ==
    Append(current_row, cleanup_cell_text(stripped))

\* line 62: the line joins the last cell of the current row
MergeContinuation(current_row, stripped) ==
    [current_row EXCEPT
        ![Len(current_row)] = @ \o <<" ">> \o cleanup_cell_text(stripped)]

\* lines 38-62, one pass of the while loop on the line l
WikitableStep(l, st) ==
    IF IsTableEnd(l)
    THEN [st EXCEPT !.rows = IF st.current_row # <<>>
                             THEN Append(@, st.current_row) ELSE @,
                    !.closed = TRUE]
    ELSE IF IsRowSeparator(l)
    THEN IF st.current_row # <<>>
         THEN [st EXCEPT !.rows = Append(@, st.current_row), !.current_row = <<>>]
         ELSE st
    ELSE IF IsHeaderCell(l)
    THEN [st EXCEPT !.headers = Append(@, cleanup_cell_text(l.text))]
    ELSE IF IsDataCell(l)
    THEN [st EXCEPT !.current_row = Append(@, cleanup_cell_text(l.text))]
    ELSE IF IsContinuation(l) /\ st.current_row # <<>>
    THEN [st EXCEPT !.current_row = MergeContinuation(@, l.text)]
    ELSE st

\* a return of the index the loop stopped at
TableResultAtStop(i, st) == [next |-> i, headers |-> st.headers, rows |-> st.rows]

\* line 66: the index after the line the loop stopped at, and the table; the
\* current row is not part of it
TableResult(i, st) == [next |-> i + 1, headers |-> st.headers, rows |-> st.rows]

\* lines 37-64, from line i on; the result is what line 66 returns
RECURSIVE WikitableLoop(_, _, _)
WikitableLoop(ls, i, st) ==
    IF i > Len(ls) THEN TableResult(i, st)
    ELSE LET after == WikitableStep(ls[i], st)
         IN  IF after.closed THEN TableResult(i, after)
             ELSE WikitableLoop(ls, i + 1, after)

\* lines 27-66
parse_wikitable(ls, start_index) == WikitableLoop(ls, start_index + 1, NoTable)

-----------------------------------------------------------------------------
(* inheritance_utils.py: collect_inheritance_relationships *)

\* lines 27-31: INHERIT_RE.search finds the first declaration of the line
CollectInherit(l, imap) ==
    IF IsInherit(l) THEN Put(imap, l.name, l.parent) ELSE imap

\* lines 34-38
CollectHeader(l, names) ==
    IF IsSectionHeader(l) /\ l.name \notin Range(names)
    THEN Append(names, l.name) ELSE names

\* lines 23-38, from line i on
RECURSIVE CollectLoop(_, _, _, _)
CollectLoop(ls, i, names, imap) ==
    IF i > Len(ls) THEN [section_names |-> names, inherit_map |-> imap]
    ELSE CollectLoop(ls, i + 1, CollectHeader(ls[i], names),
                     CollectInherit(ls[i], imap))

\* lines 15-40
collect_inheritance_relationships(ls) == CollectLoop(ls, 1, <<>>, EmptyMap)

-----------------------------------------------------------------------------
(* inheritance_utils.py: calculate_base_index *)

\* a walk that stops at the parent
NextAncestorNone(imap, current) == NoName

\* line 100: inherit_map.get(current)
NextAncestor(imap, current) == Get(imap, current)

\* line 97: the loop goes on from a name that is not yet visited
ChainContinues(current, chain) == current # NoName /\ current \notin Range(chain)

\* lines 97-100: the chain of ancestors, nearest first, cut at a repeat
RECURSIVE InheritanceChain(_, _, _)
InheritanceChain(imap, current, chain) ==
    IF ~ChainContinues(current, chain) THEN chain
    ELSE InheritanceChain(imap, NextAncestor(imap, current), Append(chain, current))

\* lines 104-106: what one ancestor adds
FieldCount(parent, parsed) ==
    IF parent \in DOMAIN parsed THEN Len(parsed[parent].fields) ELSE 0

\* lines 103-106
RECURSIVE SumFields(_, _, _)
SumFields(chain, parsed, i) ==
    IF i > Len(chain) THEN 0
    ELSE FieldCount(chain[i], parsed) + SumFields(chain, parsed, i + 1)

\* lines 85-108
calculate_base_index(section_name, imap, parsed) ==
    SumFields(InheritanceChain(imap, Get(imap, section_name), <<>>), parsed, 1)

-----------------------------------------------------------------------------
(* extract.py: _find_section_lines and _parse_section_by_name *)

\* lines 117-127, from line i on; start_line 0 is Python's -1 and the
\* default end_line is one past the last line
RECURSIVE FindLoop(_, _, _, _)
FindLoop(ls, section_name, i, start_line) ==
    IF i > Len(ls) THEN [start_line |-> start_line, end_line |-> Len(ls) + 1]
    ELSE IF IsSectionHeader(ls[i])
         THEN IF ls[i].name = section_name
              THEN FindLoop(ls, section_name, i + 1, i)
              ELSE IF start_line # 0
                   THEN [start_line |-> start_line, end_line |-> i]
                   ELSE FindLoop(ls, section_name, i + 1, start_line)
         ELSE FindLoop(ls, section_name, i + 1, start_line)

\* lines 112-129
_find_section_lines(ls, section_name) == FindLoop(ls, section_name, 1, 0)

\* text_utils.py:72 meaning_to_camel_case, the naming layer: a pure function
\* from a meaning to an identifier; it reads the first chunk of the text
CamelOf(chunk) ==
    CASE chunk = "Health"     -> <<"health">>
      [] chunk = "The health" -> <<"health">>
      [] chunk = "Is on fire" -> <<"isOnFire">>
      [] chunk = "Is crouching" -> <<"isCrouching">>
      [] chunk = "Air ticks"  -> <<"airTicks">>
      [] OTHER                -> <<"field">>

meaning_to_camel_case(meaning) ==
    IF meaning = <<>> THEN <<"field">> ELSE CamelOf(meaning[1])

\* extract.py:175  ^0x[0-9A-Fa-f]+$
HexLiterals == {"0x01", "0x02", "0x04", "0x80"}

IsHexLiteral(cell) == Len(cell) = 1 /\ cell[1] \in HexLiterals

FieldKeys == {"index", "type", "default", "meaning", "name"}

\* a test that leaves the cursor out
IsBitmaskRowAnyCursor(cells, last_main_row) ==
    /\ Len(cells) = 2
    /\ IsHexLiteral(cells[1])

\* lines 173-177
IsBitmaskRow(cells, last_main_row) ==
    /\ Len(cells) = 2
    /\ IsHexLiteral(cells[1])
    /\ last_main_row # 0

\* a fold that puts the new flag in front of the earlier ones
FoldBitmaskInFront(field, cells) ==
    [field EXCEPT !.keys    = (@ \ {"meaning", "name"}) \cup {"bitmask"},
                  !.meaning = <<>>,
                  !.name    = <<>>,
                  !.bitmask = <<[mask    |-> cells[1],
                                 meaning |-> cells[2],
                                 name    |-> meaning_to_camel_case(cells[2])]>> \o @]

\* lines 179-191: the flag is folded into the field last_main_row refers to
FoldBitmask(field, cells) ==
    [field EXCEPT !.keys    = (@ \ {"meaning", "name"}) \cup {"bitmask"},
                  !.meaning = <<>>,
                  !.name    = <<>>,
                  !.bitmask = Append(@, [mask    |-> cells[1],
                                         meaning |-> cells[2],
                                         name    |-> meaning_to_camel_case(cells[2])])]

\* lines 197-203; cells[k] here is Python's cells[k-1]
RowObj(cells, index_counter) ==
    [keys    |-> FieldKeys,
     index   |-> index_counter,
     type    |-> IF Len(cells) > 1 THEN cells[2] ELSE <<"Unknown">>,
     default |-> IF Len(cells) > 4 THEN cells[5]
                 ELSE IF cells # <<>> THEN cells[Len(cells)] ELSE <<>>,
     meaning |-> IF Len(cells) > 2 THEN cells[3] ELSE <<>>,
     name    |-> IF Len(cells) > 2 /\ cells[3] # <<>>
                 THEN meaning_to_camel_case(cells[3])
                 ELSE <<"field", index_counter>>,
     bitmask |-> <<>>]

\* a row loop in which a flag row takes an index of its own
RowStepFlagCounts(st, cells) ==
    IF IsBitmaskRow(cells, st.last_main_row)
    THEN [st EXCEPT !.fields[st.last_main_row] = FoldBitmask(@, cells),
                    !.index_counter = @ + 1]
    ELSE [fields        |-> Append(st.fields, RowObj(cells, st.index_counter + 1)),
          last_main_row |-> Len(st.fields) + 1,
          index_counter |-> st.index_counter + 1]

\* lines 169-206, one row; last_main_row is the position in fields of the
\* dict the Python variable refers to, 0 for None
RowStep(st, cells) ==
    IF IsBitmaskRow(cells, st.last_main_row)
    THEN [st EXCEPT !.fields[st.last_main_row] = FoldBitmask(@, cells)]
    ELSE [fields        |-> Append(st.fields, RowObj(cells, st.index_counter + 1)),
          last_main_row |-> Len(st.fields) + 1,
          index_counter |-> st.index_counter + 1]

RECURSIVE RowLoop(_, _, _)
RowLoop(st, rows, j) ==
    IF j > Len(rows) THEN st ELSE RowLoop(RowStep(st, rows[j]), rows, j + 1)

\* lines 154-211, from line i on; seen collects the rows the loop of line
\* 169 went through
RECURSIVE SectionLoop(_, _, _, _, _)
SectionLoop(ls, i, end_line, st, seen) ==
    IF i >= end_line THEN [st |-> st, seen |-> seen]
    ELSE IF IsNoMetadata(ls[i]) THEN SectionLoop(ls, i + 1, end_line, st, seen)
    ELSE IF IsTableStart(ls[i])
         THEN LET table == parse_wikitable(ls, i)
              IN  SectionLoop(ls, table.next, end_line,
                              RowLoop(st, table.rows, 1), seen \o table.rows)
    ELSE SectionLoop(ls, i + 1, end_line, st, seen)

\* one list of fields that every entry of the map refers to
StoreFieldsShared(result, section_name, entry, fields) ==
    [t \in DOMAIN result \cup {section_name} |-> [entry EXCEPT !.fields = fields]]

\* lines 167 and 205: the rows are appended to the list that the entry of
\* the section refers to
StoreFields(result, section_name, entry, fields) ==
    Put(result, section_name, [entry EXCEPT !.fields = fields])

\* lines 132-211: found tells whether line 141 returned early; base is the
\* value of line 148
_parse_section_by_name(ls, section_name, result, imap) ==
    LET span == _find_section_lines(ls, section_name)
        entry == IF section_name \in DOMAIN result THEN result[section_name]
                 ELSE [inherits |-> <<>>, fields |-> <<>>]
        result1 == Put(result, section_name, entry)
        base == calculate_base_index(section_name, imap, result1)
        out == SectionLoop(ls, span.start_line + 1, span.end_line,
                           [fields |-> entry.fields, last_main_row |-> 0,
                            index_counter |-> base - 1], <<>>)
    IN  IF span.start_line = 0
        THEN [found |-> FALSE, result |-> result, base |-> 0, rows |-> <<>>]
        ELSE [found  |-> TRUE,
              result |-> StoreFields(result, section_name, entry, out.st.fields),
              base   |-> base,
              rows   |-> out.seen]

-----------------------------------------------------------------------------
(* extract.py: to_snake_case and the keys of the result *)

\* re.sub(r"[class]+", "_", s): every maximal run of characters of the
\* class becomes one "_"
RECURSIVE SubRuns(_, _, _)
SubRuns(s, chars, member) ==
    IF s = <<>> THEN <<>>
    ELSE IF InClass(Head(s), chars, member)
         THEN <<"_">> \o SubRuns(StripLeft(s, chars, member), chars, member)
         ELSE <<Head(s)>> \o SubRuns(Tail(s), chars, member)

\* lines 21-24
to_snake_case(name) ==
    LET s1 == SubRuns(Strip(name, SpaceChars, TRUE), AlnumChars, FALSE)
        s2 == SubRuns(s1, {"_"}, TRUE)
        s3 == [i \in DOMAIN s2 |-> Lower(s2[i])]
    IN  Strip(s3, {"_"}, TRUE)

\* f"minecraft:{...}": a key is the prefix followed by the characters
MinecraftKey(chars) == <<"minecraft:">> \o chars

NoKey == <<>>

\* lines 236-239: the value written to "inherits" of a section with a parent
InheritsValue(section_name, parent, n2e) ==
    IF section_name \in DOMAIN n2e THEN n2e[section_name]
    ELSE MinecraftKey(to_snake_case(parent))

\* lines 232-239, over the sections in the order of the dict
SetInherits(result, imap, n2e) ==
    [s \in DOMAIN result |->
        LET parent == Get(imap, s)
        IN  IF parent # NoName
            THEN [result[s] EXCEPT !.inherits = InheritsValue(s, parent, n2e)]
            ELSE result[s]]

\* lines 244-247
KeyOf(section_name, n2e) ==
    IF section_name \in DOMAIN n2e THEN n2e[section_name]
    ELSE MinecraftKey(to_snake_case(section_name))

\* lines 242-248, from position i of the dict's order on
RECURSIVE ConvertLoop(_, _, _, _, _)
ConvertLoop(result, order, n2e, i, converted) ==
    IF i > Len(order) THEN converted
    ELSE ConvertLoop(result, order, n2e, i + 1,
                     Put(converted, KeyOf(order[i], n2e), result[order[i]]))

ConvertKeys(result, order, n2e) == ConvertLoop(result, order, n2e, 1, EmptyMap)

-----------------------------------------------------------------------------
(* Groups of variables *)

docVars   == <<lines, metadata_lines, name_to_entity_id, entities, metadata_start>>
sortVars  == <<section_names, inherit_map, dependencies, queue, sorted_sections>>
parseVars == <<cursor, by_name_result, parse_order, base_of, rows_of,
               converted_result>>
diffVars  == <<version_data, report>>
cellVars  == <<cell_text, cleaned>>
tableVars == <<wikitable>>
batchVars == <<txt_files, file_index, outputs, errors>>
baseVars  == <<base_walk>>
scanVars  == <<scan>>

NoDocument ==
    /\ lines = <<>>
    /\ metadata_lines = <<>>
    /\ name_to_entity_id = EmptyMap
    /\ entities = <<>>
    /\ metadata_start = 0

NothingSorted ==
    /\ section_names = <<>>
    /\ inherit_map = EmptyMap
    /\ dependencies = EmptyMap
    /\ queue = <<>>
    /\ sorted_sections = <<>>

NothingParsed ==
    /\ cursor = 0
    /\ by_name_result = EmptyMap
    /\ parse_order = <<>>
    /\ base_of = EmptyMap
    /\ rows_of = EmptyMap
    /\ converted_result = EmptyMap

NothingDiffed ==
    /\ version_data = <<>>
    /\ report = <<>>

NothingCleaned ==
    /\ cell_text = <<>>
    /\ cleaned = <<>>

NothingTabled == wikitable = [i |-> 0] @@ NoTable

NoWalk == [section |-> NoName, current |-> NoName, chain |-> <<>>, k |-> 0,
           base_index |-> 0]

NothingWalked == base_walk = NoWalk

NoScan == [caller |-> "", i |-> 0, end_line |-> 0, st |-> <<>>]

NothingScanned == scan = NoScan

NothingBatched ==
    /\ txt_files = <<>>
    /\ file_index = 0
    /\ outputs = EmptyMap
    /\ errors = <<>>

-----------------------------------------------------------------------------
(* Specification SpecSort: topological_sort, one loop pass per step *)

InheritMaps == [Names -> Names \cup {NoName}]

SectionNameLists ==
    UNION {{s \in [1..n -> Names] : IsInjective(s)} : n \in 0..NumNames}

InitSort ==
    /\ NothingScanned
    /\ NothingWalked
    /\ NothingBatched
    /\ NothingTabled
    /\ NothingCleaned
    /\ NoDocument /\ NothingParsed /\ NothingDiffed
    /\ pc = "sort_build"
    /\ section_names \in SectionNameLists
    /\ inherit_map \in InheritMaps
    /\ dependencies = EmptyMap
    /\ queue = <<>>
    /\ sorted_sections = <<>>

\* inheritance_utils.py:49-65
SortBuild ==
    /\ pc = "sort_build"
    /\ dependencies' = Dependencies(section_names, inherit_map)
    /\ queue' = InitialQueue(section_names, dependencies')
    /\ sorted_sections' = <<>>
    /\ pc' = "sort_loop"
    /\ UNCHANGED <<scanVars, baseVars, batchVars, tableVars, cellVars, section_names, inherit_map, docVars, parseVars, diffVars>>

\* inheritance_utils.py:67-75
SortDequeue ==
    /\ pc = "sort_loop"
    /\ queue # <<>>
    /\ \E ord \in Perms(Dependents(section_names, inherit_map, Head(queue))) :
         LET k == Dequeue([deps |-> dependencies, queue |-> queue,
                           sorted |-> sorted_sections],
                          section_names, inherit_map, ord)
         IN  /\ dependencies' = k.deps
             /\ queue' = k.queue
             /\ sorted_sections' = k.sorted
    /\ UNCHANGED <<scanVars, baseVars, batchVars, tableVars, cellVars, pc, section_names, inherit_map, docVars, parseVars, diffVars>>

\* inheritance_utils.py:77-82
SortRemaining ==
    /\ pc = "sort_loop"
    /\ queue = <<>>
    /\ \E rest \in Perms(Remaining(section_names, sorted_sections)) :
         sorted_sections' = sorted_sections \o rest
    /\ pc' = "sorted"
    /\ UNCHANGED <<scanVars, baseVars, batchVars, tableVars, cellVars, section_names, inherit_map, dependencies, queue, docVars,
                   parseVars, diffVars>>

NextSort == SortBuild \/ SortDequeue \/ SortRemaining

SpecSort == InitSort /\ [][NextSort]_vars

-----------------------------------------------------------------------------
(* Documents.  A document is written as a sequence of items, each standing *)
(* for the lines of one piece of wiki markup:                              *)
(*   open, close   the markers of a wikitable                              *)
(*   reg           a row separator and the four cells of a field row       *)
(*   reg2          the same with another meaning and default               *)
(*   flag1, flag2  a row separator and the two cells (0xHEX, text)         *)
(*   nometa        the line "No additional metadata."                      *)
(*   text          a line of plain text                                    *)
(*   hdr           the header of the section NameUniverse[3]               *)
(*   ent1, ent2    a row separator and the five cells of an entity row     *)
(*   ent1b         a second entity row with the id of ent1                 *)
(*   ent3          the same, the type cell being the character U+00B2      *)
(*   hdr1, hdr2    the header of the first (second) section and the        *)
(*                 declaration of its parent                               *)
(*   regtable      a whole table of one field row                          *)
(*   widetable     a whole table of one field row of five cells            *)

RowLines(cells) == <<SepLine>> \o [i \in DOMAIN cells |-> CellLine(cells[i])]

RegRow   == << <<"0">>, <<"VarInt">>, <<"Health">>, <<"1.0">> >>
Reg2Row  == << <<"1">>, <<"Byte">>, <<"Air ticks">>, <<"300">> >>
Flag1Row == << <<"0x01">>, <<"Is on fire">> >>
Flag2Row == << <<"0x02">>, <<"Is crouching">> >>
WideRow  == << <<"0">>, <<"VarInt">>, <<"Health">>, <<"1.0">>, <<"notes">> >>
MobRow   == << <<"0","3">>, <<"M","o","b">>, <<"0.6">>, <<"1.8">>,
               <<"minecraft:", "m","o","b">> >>
MobAgain == << <<"4">>, <<"M","o","b">>, <<"0.7">>, <<"1.9">>,
               <<"minecraft:", "m","o","b">> >>
BatRow   == << <<"n/a">>, <<"B","a","t">>, <<"0.5">>, <<"0.9">>,
               <<"<code>", "minecraft:", "f","l","y","i","n","g","_","b","a","t">> >>
CowRow   == << <<SuperscriptTwo>>, <<"C","o","w">>, <<"0.9">>, <<"1.4">>,
               <<"minecraft:", "c","o","w">> >>

ItemLines(item) ==
    CASE item = "open"   -> <<OpenLine>>
      [] item = "close"  -> <<CloseLine>>
      [] item = "reg"    -> RowLines(RegRow)
      [] item = "reg2"   -> RowLines(Reg2Row)
      [] item = "flag1"  -> RowLines(Flag1Row)
      [] item = "flag2"  -> RowLines(Flag2Row)
      [] item = "nometa" -> <<NoMetaLine>>
      [] item = "text"   -> <<TextLine(<<"more">>)>>
      [] item = "hdr"    -> <<HeaderLine(NameUniverse[3])>>
      [] item = "ent1"   -> RowLines(MobRow)
      [] item = "ent1b"  -> RowLines(MobAgain)
      [] item = "ent2"   -> RowLines(BatRow)
      [] item = "ent3"   -> RowLines(CowRow)
      [] item = "hdr1"   -> <<HeaderLine(NameUniverse[1]),
                              InheritLine(NameUniverse[1], NoName)>>
      [] item = "hdr2"   -> <<HeaderLine(NameUniverse[2]),
                              InheritLine(NameUniverse[2], NameUniverse[1])>>
      [] item = "regtable"  -> <<OpenLine>> \o RowLines(RegRow) \o <<CloseLine>>
      [] item = "widetable" -> <<OpenLine>> \o RowLines(WideRow) \o <<CloseLine>>

RECURSIVE Expand(_)
Expand(items) ==
    IF items = <<>> THEN <<>> ELSE ItemLines(Head(items)) \o Expand(Tail(items))

\* the item sequences of length at most n over the alphabet
ItemSeqs(alphabet, n) == UNION {[1..m -> alphabet] : m \in 0..n}

-----------------------------------------------------------------------------
(* extract.py: parse_metadata_sections, one step per call it makes *)

\* lines 218-225: the sections and their parents are collected and sorted
Resolve ==
    /\ pc = "resolve"
    /\ \E r \in {collect_inheritance_relationships(metadata_lines)} :
           /\ section_names' = r.section_names
           /\ inherit_map' = r.inherit_map
           /\ sorted_sections' \in topological_sort(r.section_names, r.inherit_map)
    /\ pc' = "parse"
    /\ UNCHANGED <<scanVars, baseVars, batchVars, tableVars, cellVars, dependencies, queue, docVars, parseVars, diffVars>>

\* lines 228-229, one pass of the loop
ParseSection ==
    /\ pc = "parse"
    /\ cursor < Len(sorted_sections)
    /\ \E section_name \in {sorted_sections[cursor + 1]} :
       \E r \in {_parse_section_by_name(metadata_lines, section_name,
                                        by_name_result, inherit_map)} :
           /\ by_name_result' = r.result
           /\ parse_order' = IF r.found /\ section_name \notin Range(parse_order)
                             THEN Append(parse_order, section_name)
                             ELSE parse_order
           /\ base_of' = IF r.found THEN Put(base_of, section_name, r.base)
                         ELSE base_of
           /\ rows_of' = IF r.found THEN Put(rows_of, section_name, r.rows)
                         ELSE rows_of
    /\ cursor' = cursor + 1
    /\ UNCHANGED <<scanVars, baseVars, batchVars, tableVars, cellVars, pc, converted_result, docVars, sortVars, diffVars>>

\* lines 231-250
Finish ==
    /\ pc = "parse"
    /\ cursor = Len(sorted_sections)
    /\ by_name_result' = SetInherits(by_name_result, inherit_map, name_to_entity_id)
    /\ converted_result' = ConvertKeys(by_name_result', parse_order, name_to_entity_id)
    /\ pc' = "done"
    /\ UNCHANGED <<scanVars, baseVars, batchVars, tableVars, cellVars, cursor, parse_order, base_of, rows_of, docVars, sortVars,
                   diffVars>>

NextMetadata == Resolve \/ ParseSection \/ Finish

-----------------------------------------------------------------------------
(* Specification Spec: parse_metadata_sections on documents that give     *)
(* every section a header, a declaration of its parent and a body          *)

\* the bodies a section may have: no field, or a table of one field row
BodyChoices == {<<"nometa">>, <<"open", "reg", "close">>}

\* the section with the i-th name: header, declaration, body
SectionLines(i, imap, bodies) ==
    <<HeaderLine(NameUniverse[i]),
      InheritLine(NameUniverse[i], imap[NameUniverse[i]])>> \o Expand(bodies[i])

RECURSIVE SectionsFrom(_, _, _, _)
SectionsFrom(i, k, imap, bodies) ==
    IF i > k THEN <<>>
    ELSE SectionLines(i, imap, bodies) \o SectionsFrom(i + 1, k, imap, bodies)

\* the declarations of the names that have no header
RECURSIVE DeclarationsFrom(_, _)
DeclarationsFrom(i, imap) ==
    IF i > NumNames THEN <<>>
    ELSE <<InheritLine(NameUniverse[i], imap[NameUniverse[i]])>>
         \o DeclarationsFrom(i + 1, imap)

MetadataDocument(k, imap, bodies) ==
    <<MetaHdrLine>> \o SectionsFrom(1, k, imap, bodies) \o DeclarationsFrom(k + 1, imap)

\* the id the entity table gives the entity of a display name
EntityIdOf(name) ==
    IF name = NameUniverse[2]
    THEN MinecraftKey(<<"f","l","y","i","n","g","_","b","a","t">>)
    ELSE MinecraftKey(to_snake_case(name))

\* the display names that may be names of entities
EntityNames == {NameUniverse[1], NameUniverse[2]}

NameToEntityIds == {[n \in S |-> EntityIdOf(n)] : S \in SUBSET EntityNames}

InitMetadata ==
    /\ NothingScanned
    /\ NothingWalked
    /\ NothingBatched
    /\ NothingTabled
    /\ NothingCleaned
    /\ NothingSorted /\ NothingParsed /\ NothingDiffed
    /\ pc = "resolve"
    /\ lines = <<>>
    /\ entities = <<>>
    /\ metadata_start = 0
    /\ name_to_entity_id \in NameToEntityIds
    /\ \E k \in 0..NumNames, imap \in InheritMaps :
         \E bodies \in [1..k -> BodyChoices] :
            metadata_lines = MetadataDocument(k, imap, bodies)

Spec == InitMetadata /\ [][NextMetadata]_vars

-----------------------------------------------------------------------------
(* Specification SpecSection: the same steps on documents whose second     *)
(* section, a child of the first, holds any sequence of items              *)

\* how many items the body of the second section may hold
MaxItems == 5

SectionItems == {"open", "close", "reg", "flag1", "flag2", "hdr"}

SectionDocument(items) ==
    <<MetaHdrLine,
      HeaderLine(NameUniverse[1]), InheritLine(NameUniverse[1], NoName)>>
    \o Expand(<<"open", "reg2", "close">>)
    \o <<HeaderLine(NameUniverse[2]), InheritLine(NameUniverse[2], NameUniverse[1])>>
    \o Expand(items)

InitSection ==
    /\ NothingScanned
    /\ NothingWalked
    /\ NothingBatched
    /\ NothingTabled
    /\ NothingCleaned
    /\ NothingSorted /\ NothingParsed /\ NothingDiffed
    /\ pc = "resolve"
    /\ lines = <<>>
    /\ entities = <<>>
    /\ metadata_start = 0
    /\ name_to_entity_id = EmptyMap
    /\ \E items \in ItemSeqs(SectionItems, MaxItems) :
         metadata_lines = SectionDocument(items)

SpecSection == InitSection /\ [][NextMetadata]_vars

-----------------------------------------------------------------------------
(* Claims on topological_sort, under SpecSort *)

\* the names met walking inherit_map from current until None or a repeat
RECURSIVE Chain(_, _, _)
Chain(imap, current, visited) ==
    IF current = NoName \/ current \in visited THEN visited
    ELSE Chain(imap, Get(imap, current), visited \cup {current})

\* the ancestors of s, s itself included when s is on a cycle
Ancestors(imap, s) == Chain(imap, Get(imap, s), {})

OnCycle(imap, s) == s \in Ancestors(imap, s)

\* C3: in the returned list every section whose declared parent is a known
\* section, and whose edge to it is on no cycle, comes strictly after that
\* parent.
C3_TopologicalValidity ==
    pc = "sorted" =>
        \A child \in Range(section_names) :
            LET parent == Get(inherit_map, child)
            IN  (/\ parent # NoName
                 /\ parent \in Range(section_names)
                 /\ ~OnCycle(inherit_map, child))
                => IndexOf(sorted_sections, parent) < IndexOf(sorted_sections, child)

\* C4: the returned list is a permutation of section_names.
C4_Permutation ==
    pc = "sorted" =>
        /\ Len(sorted_sections) = Len(section_names)
        /\ Range(sorted_sections) = Range(section_names)
        /\ IsInjective(sorted_sections)

\* a finished sort of a section that is its own parent or on a longer cycle
\* and of a section whose parent has no header
C4_Witness ==
    /\ pc = "sorted"
    /\ Len(sorted_sections) >= 2
    /\ \E s \in Range(section_names) : OnCycle(inherit_map, s)
    /\ \E s \in Range(section_names) :
          /\ Get(inherit_map, s) # NoName
          /\ Get(inherit_map, s) \notin Range(section_names)

-----------------------------------------------------------------------------
(* Claims on _parse_section_by_name, under SpecSection *)

\* C1: in every extracted section the i-th field has the index baseIndex + i
\* (counting i from 0), baseIndex being what calculate_base_index returned
\* for the section; flag rows take no index.
C1_IndexMonotonicity ==
    \A s \in DOMAIN by_name_result :
        \A i \in 1..Len(by_name_result[s].fields) :
            by_name_result[s].fields[i].index = base_of[s] + (i - 1)

\* the child section, based at 1, has got a flag-bearing field and a later
\* field behind the flag row
C1_Witness ==
    /\ pc = "done"
    /\ NameUniverse[2] \in DOMAIN by_name_result
    /\ base_of[NameUniverse[2]] = 1
    /\ LET fields == by_name_result[NameUniverse[2]].fields
       IN  /\ Len(fields) = 2
           /\ fields[1].bitmask # <<>>
           /\ Len(rows_of[NameUniverse[2]]) = 3

\* the shape (0xHEX, text) of a row
FlagShaped(cells) == Len(cells) = 2 /\ IsHexLiteral(cells[1])

\* a row is a regular field row unless it is flag-shaped and follows a row
RegularAt(rows, p) == p = 1 \/ ~FlagShaped(rows[p])

RegularPositions(rows) == {p \in 1..Len(rows) : RegularAt(rows, p)}

\* the position of the j-th regular row
NthRegular(rows, j) ==
    CHOOSE p \in RegularPositions(rows) :
        Cardinality({q \in RegularPositions(rows) : q <= p}) = j

\* how many flag rows follow position p immediately
FlagRun(rows, p) ==
    CHOOSE n \in 0..Len(rows) :
        /\ p + n <= Len(rows)
        /\ \A m \in 1..n : ~RegularAt(rows, p + m)
        /\ (p + n < Len(rows) => RegularAt(rows, p + n + 1))

\* C5: a regular row followed immediately by n flag rows yields one field:
\* without meaning when n > 0, with n flags in row order, each with its mask
\* and derived name, and with the index the row has when the flag rows are
\* left out; the next regular row gets the next index.
C5_BitmaskFolding ==
    \A s \in DOMAIN rows_of :
        LET rows   == rows_of[s]
            fields == by_name_result[s].fields
        IN  /\ Len(fields) = Cardinality(RegularPositions(rows))
            /\ \A j \in 1..Len(fields) :
                 LET p == NthRegular(rows, j)
                     n == FlagRun(rows, p)
                     f == fields[j]
                 IN  /\ f.index = base_of[s] + (j - 1)
                     /\ Len(f.bitmask) = n
                     /\ \A m \in 1..n :
                          /\ f.bitmask[m].mask = rows[p + m][1]
                          /\ f.bitmask[m].name = meaning_to_camel_case(rows[p + m][2])
                     /\ (n > 0) = ("bitmask" \in f.keys)
                     /\ (n > 0) = ("meaning" \notin f.keys)
                     /\ (n > 0 => f.meaning = <<>>)
                     /\ (j < Len(fields) => fields[j + 1].index = f.index + 1)

\* a regular row followed by the two flag rows 0x01 and 0x02, in a section
\* based at 1
C5_Witness ==
    /\ pc = "done"
    /\ NameUniverse[2] \in DOMAIN rows_of
    /\ rows_of[NameUniverse[2]] = <<RegRow, Flag1Row, Flag2Row>>
    /\ Len(by_name_result[NameUniverse[2]].fields[1].bitmask) = 2
    /\ base_of[NameUniverse[2]] = 1

-----------------------------------------------------------------------------
(* Claims on parse_metadata_sections, under Spec *)

\* C2: when B declares the known section A as its parent and B is on no
\* cycle, B's first field has the index (number of A's fields) + (A's
\* baseIndex).
C2_InheritanceOffset ==
    pc = "done" =>
        \A b \in DOMAIN by_name_result :
            LET a == Get(inherit_map, b)
            IN  (/\ a # NoName
                 /\ a \in Range(section_names)
                 /\ ~OnCycle(inherit_map, b)
                 /\ by_name_result[b].fields # <<>>)
                => by_name_result[b].fields[1].index
                      = Len(by_name_result[a].fields) + base_of[a]

\* C6: in the returned map every inherits that is set is the key of another
\* section of the map.
C6_InheritsNamesAnotherKey ==
    pc = "done" =>
        \A key \in DOMAIN converted_result :
            LET inherits == converted_result[key].inherits
            IN  inherits # NoKey =>
                    /\ inherits \in DOMAIN converted_result
                    /\ inherits # key

-----------------------------------------------------------------------------
(* extract.py: parse_entities_table *)

\* line 90: re.sub(r"</?code>", "", entity_id)
StripCodeTags(text) == SelectSeq(text, LAMBDA c : c \notin {"<code>", "</code>"})

\* line 94: type_text and type_text.strip().isdigit()
IsDigitText(text) ==
    LET t == Strip(text, SpaceChars, TRUE)
    IN  t # <<>> /\ \A i \in DOMAIN t : t[i] \in IsdigitChars

\* line 95: int() raises ValueError unless every character is a decimal digit
IntRaises(text) ==
    LET t == Strip(text, SpaceChars, TRUE)
    IN  \E i \in DOMAIN t : t[i] \notin Range(DigitChars)

\* line 95: int(type_text.strip()), the digits without leading zeros
IntOf(text) ==
    LET z == StripLeft(Strip(text, SpaceChars, TRUE), {"0"}, TRUE)
    IN  IF z = <<>> THEN <<"0">> ELSE z

\* lines 93-98: an int when the cell is a number, the text of the cell if not
TypeIndex(type_text) ==
    IF IsDigitText(type_text) THEN [int |-> TRUE, value |-> IntOf(type_text)]
    ELSE [int |-> FALSE, value |-> type_text]

\* lines 83-102: the entry a row of five or more cells makes
EntityOf(row) ==
    [id              |-> StripCodeTags(row[5]),
     type_index      |-> TypeIndex(row[1]),
     name            |-> row[2],
     bounding_box_xz |-> row[3],
     bounding_box_y  |-> row[4]]

\* line 97, entities[entity_id] = ...: a key that is replaced keeps its place
DictSet(dict, entry) ==
    IF \E i \in DOMAIN dict : dict[i].id = entry.id
    THEN [i \in DOMAIN dict |-> IF dict[i].id = entry.id THEN entry ELSE dict[i]]
    ELSE Append(dict, entry)

\* lines 81-102, from row j on: raised tells that line 95 raised ValueError,
\* which ends the function with no dict returned
RECURSIVE EntityRows(_, _, _)
EntityRows(dict, rows, j) ==
    IF j > Len(rows) THEN [raised |-> FALSE, entities |-> dict]
    ELSE IF Len(rows[j]) >= 5
         THEN IF IsDigitText(rows[j][1]) /\ IntRaises(rows[j][1])
              THEN [raised |-> TRUE, entities |-> dict]
              ELSE EntityRows(DictSet(dict, EntityOf(rows[j])), rows, j + 1)
         ELSE EntityRows(dict, rows, j + 1)

\* lines 74-107, from line i on
RECURSIVE EntitiesLoop(_, _, _)
EntitiesLoop(ls, i, dict) ==
    IF i > Len(ls) THEN [raised |-> FALSE, entities |-> dict]
    ELSE IF IsTableStart(ls[i])
         THEN LET table == parse_wikitable(ls, i)
                  r     == EntityRows(dict, table.rows, 1)
              IN  IF r.raised THEN r ELSE EntitiesLoop(ls, table.next, r.entities)
         ELSE EntitiesLoop(ls, i + 1, dict)

\* lines 69-109
parse_entities_table(ls) == EntitiesLoop(ls, 1, <<>>)

-----------------------------------------------------------------------------
(* extract.py: extract, one step per part of the function *)

\* lines 261-264, from entry i of the dict on
RECURSIVE NameToEntityId(_, _, _)
NameToEntityId(dict, i, map) ==
    IF i > Len(dict) THEN map
    ELSE NameToEntityId(dict, i + 1, Put(map, dict[i].name, dict[i].id))

\* lines 267-271: the first line that is the header, 0 for Python's -1
FindMetadataStart(ls) ==
    IF \E i \in DOMAIN ls : IsMetadataHeader(ls[i])
    THEN CHOOSE i \in DOMAIN ls :
            IsMetadataHeader(ls[i]) /\ \A j \in 1..(i - 1) : ~IsMetadataHeader(ls[j])
    ELSE 0

\* lines 258-264: an exception of parse_entities_table ends extract
ParseEntities ==
    /\ pc = "extract"
    /\ \E r \in {parse_entities_table(lines)} :
           IF r.raised
           THEN /\ pc' = "raised"
                /\ UNCHANGED <<scanVars, baseVars, batchVars, tableVars, cellVars, entities, name_to_entity_id>>
           ELSE /\ entities' = r.entities
                /\ name_to_entity_id' = NameToEntityId(r.entities, 1, EmptyMap)
                /\ pc' = "locate"
    /\ UNCHANGED <<scanVars, baseVars, batchVars, tableVars, cellVars, lines, metadata_lines, metadata_start, sortVars, parseVars,
                   diffVars>>

\* lines 267-278: without a header the metadata is {} and extract is done
LocateMetadata ==
    /\ pc = "locate"
    /\ metadata_start' = FindMetadataStart(lines)
    /\ IF metadata_start' = 0
       THEN /\ metadata_lines' = <<>>
            /\ pc' = "done"
       ELSE /\ metadata_lines' = SubSeq(lines, metadata_start', Len(lines))
            /\ pc' = "resolve"
    /\ UNCHANGED <<scanVars, baseVars, batchVars, tableVars, cellVars, lines, entities, name_to_entity_id, sortVars, parseVars,
                   diffVars>>

NextExtract == ParseEntities \/ LocateMetadata \/ Resolve \/ ParseSection \/ Finish

-----------------------------------------------------------------------------
(* Specification SpecExtract: extract on documents made of items before    *)
(* the Entity Metadata header and, when there is a header, items after it  *)

\* how many items a document may hold before the header
MaxEntityItems == 3

\* how many items a document may hold after the header
MaxMetadataItems == 2

EntityItems == {"open", "close", "ent1", "ent2", "ent3", "reg"}

MetadataItems == {"hdr1", "hdr2", "regtable", "widetable"}

Documents ==
    {Expand(pre) : pre \in ItemSeqs(EntityItems, MaxEntityItems)}
    \cup {Expand(pre) \o <<MetaHdrLine>> \o Expand(post) :
             pre \in ItemSeqs(EntityItems, MaxEntityItems),
             post \in ItemSeqs(MetadataItems, MaxMetadataItems)}

InitExtract ==
    /\ NothingScanned
    /\ NothingWalked
    /\ NothingBatched
    /\ NothingTabled
    /\ NothingCleaned
    /\ NothingSorted /\ NothingParsed /\ NothingDiffed
    /\ pc = "extract"
    /\ lines \in Documents
    /\ metadata_lines = <<>>
    /\ name_to_entity_id = EmptyMap
    /\ entities = <<>>
    /\ metadata_start = 0

SpecExtract == InitExtract /\ [][NextExtract]_vars

-----------------------------------------------------------------------------
(* Claims on extract, under SpecExtract *)

\* the entity ids the rows of the table opened at line i give
TableIds(ls, i) ==
    {StripCodeTags(r[5]) : r \in {x \in Range(parse_wikitable(ls, i).rows) : Len(x) >= 5}}

\* C10: when the document has an Entity Metadata header, every entity of the
\* entity map comes from a row of a table opened before the header.
C10_EntitiesBeforeMetadata ==
    (pc \notin {"extract", "locate"} /\ metadata_start # 0) =>
        \A k \in DOMAIN entities :
            \E i \in 1..(metadata_start - 1) :
                /\ IsTableStart(lines[i])
                /\ entities[k].id \in TableIds(lines, i)

\* the rows of the tables parse_entities_table meets from line i on, in order
RECURSIVE ScannedRows(_, _)
ScannedRows(ls, i) ==
    IF i > Len(ls) THEN <<>>
    ELSE IF IsTableStart(ls[i])
         THEN LET table == parse_wikitable(ls, i)
              IN  table.rows \o ScannedRows(ls, table.next)
         ELSE ScannedRows(ls, i + 1)

\* the rows of five or more cells among them
EntityRowsOf(ls) == SelectSeq(ScannedRows(ls, 1), LAMBDA row : Len(row) >= 5)

\* C11: parse_entities_table does not fail; the keys of the entity map are
\* the fifth cells of the rows of five or more cells, so that a shorter row
\* adds no entry, and the entry of a key holds the cells of the last row that
\* has the key as fifth cell.
C11_EntityTableBoundary ==
    pc # "extract" =>
        LET rows == EntityRowsOf(lines)
        IN  /\ pc # "raised"
            /\ {entities[k].id : k \in DOMAIN entities} =
                   {rows[j][5] : j \in DOMAIN rows}
            /\ \A k \in DOMAIN entities :
                   \E j \in DOMAIN rows :
                       /\ rows[j][5] = entities[k].id
                       /\ \A m \in (j + 1)..Len(rows) : rows[m][5] # rows[j][5]
                       /\ entities[k].name = rows[j][2]
                       /\ entities[k].bounding_box_xz = rows[j][3]
                       /\ entities[k].bounding_box_y = rows[j][4]

\* the document has no line that is the Entity Metadata header
HasNoMetadataHeader == \A i \in DOMAIN lines : ~IsMetadataHeader(lines[i])

\* C12: on a document without an Entity Metadata header extract raises no
\* error and returns an empty metadata map together with the entity map of
\* parse_entities_table.
C12_NoHeaderDegrades ==
    (HasNoMetadataHeader /\ pc \notin {"extract", "locate"}) =>
        /\ pc = "done"
        /\ converted_result = EmptyMap
        /\ entities = parse_entities_table(lines).entities

-----------------------------------------------------------------------------
(* analyze_complete.py.  version_data is the sequence of the snapshots in   *)
(* the sorted order of their version names: version v is the v-th name.    *)
(* A snapshot is [entities |-> id -> entry, metadata |-> key -> section].  *)

\* the characters in the order of their code points
CodePoints ==
    <<"minecraft:">> \o DigitChars \o UpperChars \o <<"_">> \o LowerChars

\* Python's < on str
RECURSIVE StrLess(_, _)
StrLess(a, b) ==
    IF b = <<>> THEN FALSE
    ELSE IF a = <<>> THEN TRUE
    ELSE IF Head(a) = Head(b) THEN StrLess(Tail(a), Tail(b))
    ELSE IndexOf(CodePoints, Head(a)) < IndexOf(CodePoints, Head(b))

\* the elements of a set of str from the greatest to the least
SortedDescending(S) ==
    CHOOSE s \in Perms(S) : \A i, j \in DOMAIN s : i < j => StrLess(s[j], s[i])

\* sorted(S) for a set of str
Sorted(S) ==
    CHOOSE s \in Perms(S) : \A i, j \in DOMAIN s : i < j => StrLess(s[i], s[j])

\* lines 39, 167: versions = sorted(version_data.keys())
Versions(vd) == 1..Len(vd)

\* lines 42-45
AllEntities(vd) == UNION {DOMAIN vd[v].entities : v \in Versions(vd)}

\* lines 54-59: entity_versions[version] is not None
EntityPresent(vd, entity, v) == entity \in DOMAIN vd[v].entities

\* a tuple of values that takes the name in as well
EntityTupleWithName(data) ==
    <<data.type_index, data.bounding_box_xz, data.bounding_box_y, data.name>>

\* lines 65-69
EntityTuple(data) ==
    <<data.type_index, data.bounding_box_xz, data.bounding_box_y>>

\* lines 62-69
ValuesSet(vd, entity) ==
    {EntityTuple(vd[v].entities[entity]) :
        v \in {w \in Versions(vd) : EntityPresent(vd, entity, w)}}

\* lines 72-76
EntityHasChanges(vd, entity) ==
    LET not_all_present == \E v \in Versions(vd) : ~EntityPresent(vd, entity, v)
        has_some        == \E v \in Versions(vd) : EntityPresent(vd, entity, v)
    IN  Cardinality(ValuesSet(vd, entity)) > 1 \/ (not_all_present /\ has_some)

\* lines 48-77
EntitiesWithChanges(vd) ==
    SelectSeq(Sorted(AllEntities(vd)), LAMBDA entity : EntityHasChanges(vd, entity))

\* a row of a property table; prev and value hold one element, or none for
\* None and "-"
PropertyRow(v, value, label, prev) ==
    [version |-> v, value |-> value, label |-> label, old |-> prev]

\* a walk that goes on with the last value after a version without the entity
PropertyStepKeepsPrev(vd, entity, property, v, st) ==
    IF EntityPresent(vd, entity, v)
    THEN LET val == <<vd[v].entities[entity][property]>>
             label == IF st.prev # <<>> /\ st.prev # val THEN "Changed" ELSE ""
         IN  [prev |-> val,
              rows |-> IF st.prev = <<>> \/ st.prev # val
                       THEN Append(st.rows, PropertyRow(v, val, label, st.prev))
                       ELSE st.rows]
    ELSE IF st.prev # <<>>
         THEN [prev |-> st.prev,
               rows |-> Append(st.rows, PropertyRow(v, <<>>, "REMOVED", <<>>))]
         ELSE st

\* lines 93-108 (and 114-130, 136-152), one version of the walk
PropertyStep(vd, entity, property, v, st) ==
    IF EntityPresent(vd, entity, v)
    THEN LET val == <<vd[v].entities[entity][property]>>
             label == IF st.prev # <<>> /\ st.prev # val THEN "Changed" ELSE ""
         IN  [prev |-> val,
              rows |-> IF st.prev = <<>> \/ st.prev # val
                       THEN Append(st.rows, PropertyRow(v, val, label, st.prev))
                       ELSE st.rows]
    ELSE IF st.prev # <<>>
         THEN [prev |-> <<>>,
               rows |-> Append(st.rows, PropertyRow(v, <<>>, "REMOVED", <<>>))]
         ELSE st

RECURSIVE PropertyWalk(_, _, _, _, _)
PropertyWalk(vd, entity, property, v, st) ==
    IF v > Len(vd) THEN st.rows
    ELSE PropertyWalk(vd, entity, property, v + 1,
                      PropertyStep(vd, entity, property, v, st))

\* lines 92-108, 113-130, 135-152
PropertyRows(vd, entity, property) ==
    PropertyWalk(vd, entity, property, 1, [prev |-> <<>>, rows |-> <<>>])

\* line 81: entity.replace("minecraft:", "")
Display(key) == SelectSeq(key, LAMBDA c : c # "minecraft:")

\* lines 80-152: what the report shows of one entity
EntityEntry(vd, entity) ==
    [id              |-> entity,
     display         |-> Display(entity),
     type_index      |-> PropertyRows(vd, entity, "type_index"),
     bounding_box_xz |-> PropertyRows(vd, entity, "bounding_box_xz"),
     bounding_box_y  |-> PropertyRows(vd, entity, "bounding_box_y")]

\* lines 31-157: the entries in their order and the two numbers of line 155
analyze_entity_changes(vd) ==
    LET changed == EntitiesWithChanges(vd)
    IN  [entries |-> [i \in DOMAIN changed |-> EntityEntry(vd, changed[i])],
         summary |-> <<Len(changed), Cardinality(AllEntities(vd))>>]

\* lines 170-173
AllMetadataTypes(vd) == UNION {DOMAIN vd[v].metadata : v \in Versions(vd)}

\* lines 186-187: type_versions[version] is not None
TypePresent(vd, metadata_type, v) == metadata_type \in DOMAIN vd[v].metadata

\* lines 192-205: the entries a field with bit flags is expanded to
RECURSIVE ExpandBitmask(_, _)
ExpandBitmask(field, k) ==
    IF k > Len(field.bitmask) THEN <<>>
    ELSE <<[name    |-> field.bitmask[k].name,
            index   |-> field.index,
            type    |-> <<"Byte[">> \o field.bitmask[k].mask \o <<"]">>,
            default |-> field.default,
            meaning |-> field.bitmask[k].meaning,
            is_bitmask |-> TRUE]>> \o ExpandBitmask(field, k + 1)

\* lines 189-211: the (name, data) pairs one section gives fields_by_name,
\* in the order in which they are written to it
RECURSIVE NamedFields(_, _)
NamedFields(fields, i) ==
    IF i > Len(fields) THEN <<>>
    ELSE LET field == fields[i] IN
         (IF "bitmask" \in field.keys /\ field.bitmask # <<>>
          THEN ExpandBitmask(field, 1)
          ELSE <<[name    |-> IF "name" \in field.keys THEN field.name
                              ELSE <<"field_", field.index>>,
                  index   |-> field.index,
                  type    |-> field.type,
                  default |-> field.default,
                  meaning |-> field.meaning,
                  is_bitmask |-> FALSE]>>)
         \o NamedFields(fields, i + 1)

\* the names fields_by_name has for version v
FieldNames(vd, metadata_type, v) ==
    IF TypePresent(vd, metadata_type, v)
    THEN {f.name : f \in Range(NamedFields(vd[v].metadata[metadata_type].fields, 1))}
    ELSE {}

\* fields_by_name[field_name][v]: the last entry written under the name
FieldOf(vd, metadata_type, field_name, v) ==
    LET named == NamedFields(vd[v].metadata[metadata_type].fields, 1)
        last  == CHOOSE i \in DOMAIN named :
                    /\ named[i].name = field_name
                    /\ \A j \in DOMAIN named : named[j].name = field_name => j <= i
    IN  named[last]

\* lines 233-251 for one name of fields_by_name
FieldHasChanges(vd, metadata_type, field_name) ==
    LET field_versions == {v \in Versions(vd) :
                              field_name \in FieldNames(vd, metadata_type, v)}
        present  == {v \in Versions(vd) : TypePresent(vd, metadata_type, v)}
        indices  == {FieldOf(vd, metadata_type, field_name, v).index : v \in field_versions}
        types    == {FieldOf(vd, metadata_type, field_name, v).type : v \in field_versions}
        defaults == {FieldOf(vd, metadata_type, field_name, v).default : v \in field_versions}
    IN  \/ Cardinality(indices) > 1
        \/ Cardinality(types) > 1
        \/ Cardinality(defaults) > 1
        \/ Cardinality(field_versions) # Cardinality(present)

\* lines 216-251
MetadataHasChanges(vd, metadata_type) ==
    LET present == {v \in Versions(vd) : TypePresent(vd, metadata_type, v)}
        inherits_values == {vd[v].metadata[metadata_type].inherits : v \in present}
        names == UNION {FieldNames(vd, metadata_type, v) : v \in Versions(vd)}
    IN  \/ (present # Versions(vd) /\ present # {})
        \/ Cardinality(inherits_values) > 1
        \/ \E field_name \in names : FieldHasChanges(vd, metadata_type, field_name)

\* lines 176-254
MetadataWithChanges(vd) ==
    SelectSeq(Sorted(AllMetadataTypes(vd)),
              LAMBDA metadata_type : MetadataHasChanges(vd, metadata_type))

\* lines 159-387: the entries in their order and the two numbers of line 385
analyze_metadata_changes(vd) ==
    LET changed == MetadataWithChanges(vd)
    IN  [entries |-> [i \in DOMAIN changed |-> [id |-> changed[i]]],
         summary |-> <<Len(changed), Cardinality(AllMetadataTypes(vd))>>]

-----------------------------------------------------------------------------
(* analyze_complete.py: load_version_data and main *)

\* how many version files the output directory may hold
NumVersions == 3

\* the entries of the entity table a version may give the first entity:
\* the same entry with another type, width, height or name
MobEntries ==
    {EntityOf(row) :
        row \in {MobRow,
                 [MobRow EXCEPT ![1] = <<"4">>],
                 [MobRow EXCEPT ![1] = <<"n/a">>],
                 [MobRow EXCEPT ![3] = <<"0.7">>],
                 [MobRow EXCEPT ![4] = <<"1.9">>],
                 [MobRow EXCEPT ![2] = <<"M","o","b","s">>]}}

\* json.load of what json.dump wrote of an entity dict: id -> entry
EntityDict(dict) ==
    [id \in {dict[i].id : i \in DOMAIN dict} |->
        dict[CHOOSE i \in DOMAIN dict : dict[i].id = id]]

EntitySnapshots ==
    {[entities |-> EntityDict(mob \o bat), metadata |-> EmptyMap] :
        mob \in {<<>>} \cup {<<e>> : e \in MobEntries},
        bat \in {<<>>, <<EntityOf(BatRow)>>}}

\* the section a list of table rows gives, as _parse_section_by_name
\* builds it from base index 0
SectionOf(inherits, rows) ==
    [inherits |-> inherits,
     fields   |-> RowLoop([fields |-> <<>>, last_main_row |-> 0,
                           index_counter |-> 0 - 1], rows, 1).fields]

FlagsRow    == << <<"1">>, <<"Byte">>, <<"Flags">>, <<"0">> >>
FlagsIntRow == << <<"1">>, <<"VarInt">>, <<"Flags">>, <<"0">> >>
TheHealthRow == << <<"1">>, <<"Float">>, <<"The health">>, <<"1.0">> >>

\* the forms the first section may have in a version
MobSections ==
    {SectionOf(NoKey, <<RegRow, FlagsRow, Flag1Row>>),
     SectionOf(MinecraftKey(<<"e","n","t","i","t","y">>), <<RegRow, FlagsRow, Flag1Row>>),
     SectionOf(NoKey, <<RegRow, FlagsIntRow, Flag1Row>>),
     SectionOf(NoKey, <<[RegRow EXCEPT ![4] = <<"20.0">>], FlagsRow, Flag1Row>>),
     SectionOf(NoKey, <<RegRow>>),
     SectionOf(NoKey, <<RegRow, TheHealthRow>>),
     SectionOf(NoKey, <<[RegRow EXCEPT ![2] = <<"Byte">>], TheHealthRow>>)}

MetadataSnapshots ==
    {[entities |-> EmptyMap,
      metadata |-> [k \in keys |->
                      IF k = MinecraftKey(<<"m","o","b">>) THEN mob
                      ELSE SectionOf(NoKey, <<Reg2Row>>)]] :
        mob \in MobSections,
        keys \in SUBSET {MinecraftKey(<<"m","o","b">>), MinecraftKey(<<"b","a","t">>)}}

\* lines 10-14, one file: the next version in sorted order is loaded
LoadEntityVersion ==
    /\ pc = "load"
    /\ Len(version_data) < NumVersions
    /\ \E snapshot \in EntitySnapshots :
           version_data' = Append(version_data, snapshot)
    /\ UNCHANGED <<scanVars, baseVars, batchVars, tableVars, cellVars, pc, report, docVars, sortVars, parseVars>>

\* lines 10-14, one file, of the versions that differ in their sections
LoadMetadataVersion ==
    /\ pc = "load"
    /\ Len(version_data) < NumVersions
    /\ \E snapshot \in MetadataSnapshots :
           version_data' = Append(version_data, snapshot)
    /\ UNCHANGED <<scanVars, baseVars, batchVars, tableVars, cellVars, pc, report, docVars, sortVars, parseVars>>

\* lines 402-404
AnalyzeEntities ==
    /\ pc = "load"
    /\ report' = <<analyze_entity_changes(version_data)>>
    /\ pc' = "entities_done"
    /\ UNCHANGED <<scanVars, baseVars, batchVars, tableVars, cellVars, version_data, docVars, sortVars, parseVars>>

\* lines 409-411
AnalyzeMetadata ==
    /\ pc = "entities_done"
    /\ report' = Append(report, analyze_metadata_changes(version_data))
    /\ pc' = "analysed"
    /\ UNCHANGED <<scanVars, baseVars, batchVars, tableVars, cellVars, version_data, docVars, sortVars, parseVars>>

InitDiff ==
    /\ NothingScanned
    /\ NothingWalked
    /\ NothingBatched
    /\ NothingTabled
    /\ NothingCleaned
    /\ NoDocument /\ NothingSorted /\ NothingParsed
    /\ pc = "load"
    /\ version_data = <<>>
    /\ report = <<>>

NextEntityDiff == LoadEntityVersion \/ AnalyzeEntities \/ AnalyzeMetadata

NextMetadataDiff == LoadMetadataVersion \/ AnalyzeEntities \/ AnalyzeMetadata

\* the differs on versions that differ in their entities
SpecEntityDiff == InitDiff /\ [][NextEntityDiff]_vars

\* the differs on versions that differ in their metadata sections
SpecMetadataDiff == InitDiff /\ [][NextMetadataDiff]_vars

-----------------------------------------------------------------------------
(* Claims on analyze_entity_changes, under SpecEntityDiff *)

\* the ids the entity report lists
ReportedEntities == {report[1].entries[i].id : i \in DOMAIN report[1].entries}

\* the versions that have the entity
VersionsWith(entity) ==
    {v \in DOMAIN version_data : entity \in DOMAIN version_data[v].entities}

\* the entity ids a version may hold
EntityIds == {e.id : e \in MobEntries} \cup {EntityOf(BatRow).id}

\* C7: an entity id is in the entity report exactly when two versions that
\* have it differ in (type_index, bounding_box_xz, bounding_box_y), or a
\* version has it and another has not.
C7_EntityReported ==
    Len(report) >= 1 =>
        \A entity \in EntityIds :
            entity \in ReportedEntities
            <=> \/ \E v, w \in VersionsWith(entity) :
                     LET a == version_data[v].entities[entity]
                         b == version_data[w].entities[entity]
                     IN  \/ a.type_index # b.type_index
                         \/ a.bounding_box_xz # b.bounding_box_xz
                         \/ a.bounding_box_y # b.bounding_box_y
                \/ /\ VersionsWith(entity) # {}
                   /\ VersionsWith(entity) # DOMAIN version_data

\* three versions: the first entity is in all of them, with another height
\* in the last, and is reported; the second is in the last only and is
\* reported
C7_Witness ==
    /\ Len(report) >= 1
    /\ Len(version_data) = 3
    /\ VersionsWith(EntityOf(MobRow).id) = {1, 2, 3}
    /\ version_data[1].entities[EntityOf(MobRow).id] = EntityOf(MobRow)
    /\ version_data[2].entities[EntityOf(MobRow).id] = EntityOf(MobRow)
    /\ version_data[3].entities[EntityOf(MobRow).id].bounding_box_y = <<"1.9">>
    /\ VersionsWith(EntityOf(BatRow).id) = {3}
    /\ ReportedEntities = {EntityOf(MobRow).id, EntityOf(BatRow).id}

\* the type_index rows the report has for an entity and a version
TypeRowsAt(entity, v) ==
    LET entry == report[1].entries[CHOOSE i \in DOMAIN report[1].entries :
                                      report[1].entries[i].id = entity]
    IN  {entry.type_index[k] : k \in {j \in DOMAIN entry.type_index :
                                         entry.type_index[j].version = v}}

\* C9: for successive versions v and v+1: when both have the entity with
\* type_index values old # new, the type_index row of v+1 is labelled as
\* changed and shows old and new; when only v+1 has the entity, the entity
\* is reported and the row of v+1 is not labelled as changed.
C9_ChangedOrAdded ==
    Len(report) >= 1 =>
        \A entity \in EntityIds : \A v \in 1..(Len(version_data) - 1) :
            /\ ({v, v + 1} \subseteq VersionsWith(entity)
                /\ version_data[v].entities[entity].type_index
                      # version_data[v + 1].entities[entity].type_index)
               => /\ entity \in ReportedEntities
                  /\ TypeRowsAt(entity, v + 1)
                       = {[version |-> v + 1,
                           value   |-> <<version_data[v + 1].entities[entity].type_index>>,
                           label   |-> "Changed",
                           old     |-> <<version_data[v].entities[entity].type_index>>]}
            /\ (v \notin VersionsWith(entity) /\ (v + 1) \in VersionsWith(entity))
               => /\ entity \in ReportedEntities
                  /\ TypeRowsAt(entity, v + 1)
                       = {[version |-> v + 1,
                           value   |-> <<version_data[v + 1].entities[entity].type_index>>,
                           label   |-> "",
                           old     |-> <<>>]}

\* the first entity has type 3, then no entry, then type 4; the second
\* comes in version 2 and changes its type in version 3
C9_Witness ==
    /\ Len(report) >= 1
    /\ Len(version_data) = 3
    /\ VersionsWith(EntityOf(MobRow).id) = {1, 2, 3}
    /\ version_data[1].entities[EntityOf(MobRow).id].type_index = TypeIndex(<<"0","3">>)
    /\ version_data[2].entities[EntityOf(MobRow).id].type_index = TypeIndex(<<"4">>)
    /\ version_data[3].entities[EntityOf(MobRow).id].type_index = TypeIndex(<<"n/a">>)
    /\ VersionsWith(EntityOf(BatRow).id) = {2, 3}
    /\ Len(report[1].entries) = 2

-----------------------------------------------------------------------------
(* Claims on analyze_metadata_changes, under SpecMetadataDiff *)

\* the keys the metadata report lists
ReportedTypes == {report[2].entries[i].id : i \in DOMAIN report[2].entries}

\* the versions that have the section
VersionsWithType(key) ==
    {v \in DOMAIN version_data : key \in DOMAIN version_data[v].metadata}

\* the name a field is matched by
DerivedName(field) ==
    IF "name" \in field.keys THEN field.name ELSE <<"field", field.index>>

\* the fields of the list that carry the name, in their order
FieldsNamed(fields, name) == SelectSeq(fields, LAMBDA f : DerivedName(f) = name)

\* some field of the first list has no field of its name and rank in the
\* second, or differs from it in index, type or default
FieldsDiffer(fields, others) ==
    \E i \in DOMAIN fields :
        LET name  == DerivedName(fields[i])
            mine  == FieldsNamed(fields, name)
            their == FieldsNamed(others, name)
        IN  \E k \in DOMAIN mine :
                \/ k > Len(their)
                \/ mine[k].index # their[k].index
                \/ mine[k].type # their[k].type
                \/ mine[k].default # their[k].default

\* C8: a section key is in the metadata report whenever some version has the
\* section and another has not, or two versions differ in its inherits, or a
\* field of one version differs in index, type or default from the field of
\* its name in another version, or has no such field there.
C8_SectionReported ==
    Len(report) >= 2 =>
        \A key \in AllMetadataTypes(version_data) :
            (\/ VersionsWithType(key) # DOMAIN version_data
             \/ \E v, w \in VersionsWithType(key) :
                  LET a == version_data[v].metadata[key]
                      b == version_data[w].metadata[key]
                  IN  a.inherits # b.inherits \/ FieldsDiffer(a.fields, b.fields))
            => key \in ReportedTypes


-----------------------------------------------------------------------------
(* Specification SpecCleanup: cleanup_cell_text applied to a text and then *)
(* to its own result                                                       *)

\* how many chunks a text may hold
MaxChunks == 3

\* the chunks of the texts: attribute prefixes, tags, a space, a word, a
\* link and a template
CellChunks ==
    {"rowspan=2|", "style=\"a\"|", "<code>", "</code>", "<br>", " ", "x",
     "[[a|b]]", "{{t}}"}

CellTexts == UNION {[1..n -> CellChunks] : n \in 0..MaxChunks}

\* text_utils.py:53-69, the first call
CleanupCell ==
    /\ pc = "cleanup"
    /\ cleaned' = cleanup_cell_text(cell_text)
    /\ pc' = "cleaned"
    /\ UNCHANGED <<scanVars, baseVars, batchVars, tableVars, cell_text, docVars, sortVars, parseVars, diffVars>>

\* text_utils.py:53-69, called on what the first call returned
CleanupAgain ==
    /\ pc = "cleaned"
    /\ cell_text' = cleaned
    /\ cleaned' = cleanup_cell_text(cleaned)
    /\ pc' = "recleaned"
    /\ UNCHANGED <<scanVars, baseVars, batchVars, tableVars, docVars, sortVars, parseVars, diffVars>>

InitCleanup ==
    /\ NothingScanned
    /\ NothingWalked
    /\ NothingBatched
    /\ NothingTabled
    /\ NoDocument /\ NothingSorted /\ NothingParsed /\ NothingDiffed
    /\ pc = "cleanup"
    /\ cell_text \in CellTexts
    /\ cleaned = <<>>

NextCleanup == CleanupCell \/ CleanupAgain

SpecCleanup == InitCleanup /\ [][NextCleanup]_vars

\* C14: cleanup_cell_text returns a text that it leaves as it is: the second
\* call gives back what the first call returned, for every text, also one
\* that starts with more than one attribute prefix.
C14_CleanupIdempotent ==
    pc = "recleaned" => cleaned = cell_text

-----------------------------------------------------------------------------
(* Specification SpecTable: parse_wikitable on one open marker and the     *)
(* lines that follow it, one pass of its loop per step.  The variable      *)
(* wikitable holds the locals; its field i is the line the loop is at.     *)

\* how many lines may follow the open marker
MaxTableLines == 4

TableLineChoices ==
    {SepLine, CellLine(<<"a">>), TextLine(<<"more">>), TextLine(<<"<br>", "x">>),
     BlankLine, HCellLine(<<"h">>), CloseLine, OpenLine}

TableDocuments ==
    {<<OpenLine>> \o body :
        body \in UNION {[1..n -> TableLineChoices] : n \in 0..MaxTableLines}}

\* extract.py:37-64, one pass of the while loop
TableLine ==
    /\ pc = "table"
    /\ ~wikitable.closed
    /\ wikitable.i <= Len(lines)
    /\ \E after \in {WikitableStep(lines[wikitable.i], wikitable)} :
           wikitable' = IF after.closed THEN after
                        ELSE [after EXCEPT !.i = @ + 1]
    /\ UNCHANGED <<scanVars, baseVars, batchVars, pc, docVars, sortVars, parseVars, diffVars, cellVars>>

\* extract.py:66, after the break of line 44 or at the end of the lines
TableReturn ==
    /\ pc = "table"
    /\ wikitable.closed \/ wikitable.i > Len(lines)
    /\ pc' = "table_done"
    /\ UNCHANGED <<scanVars, baseVars, batchVars, docVars, sortVars, parseVars, diffVars, cellVars, tableVars>>

\* extract.py:29-35: start_index is the open marker, the loop starts after it
InitTable ==
    /\ NothingScanned
    /\ NothingWalked
    /\ NothingBatched
    /\ NothingSorted /\ NothingParsed /\ NothingDiffed /\ NothingCleaned
    /\ pc = "table"
    /\ lines \in TableDocuments
    /\ metadata_lines = <<>>
    /\ name_to_entity_id = EmptyMap
    /\ entities = <<>>
    /\ metadata_start = 0
    /\ wikitable = [i |-> 2] @@ NoTable

NextTable == TableLine \/ TableReturn

SpecTable == InitTable /\ [][NextTable]_vars

\* a non-empty line that is no close marker, row separator, header cell or
\* data cell
IsBareLine(l) ==
    /\ l.kind # "blank"
    /\ ~IsTableEnd(l) /\ ~IsRowSeparator(l) /\ ~IsHeaderCell(l) /\ ~IsDataCell(l)

\* C15: a pass of the loop of parse_wikitable on a bare line, the current row
\* holding a cell, changes neither the rows nor the number of cells of the
\* current row nor any cell but the last, which becomes its old text, one
\* space and the cleaned text of the line.
C15_ContinuationMerging ==
    [][(/\ pc = "table" /\ ~wikitable.closed /\ wikitable.i <= Len(lines)
        /\ IsBareLine(lines[wikitable.i])
        /\ wikitable.current_row # <<>>)
       => LET old == wikitable.current_row
              new == wikitable'.current_row
              n   == Len(old)
          IN  /\ wikitable'.rows = wikitable.rows
              /\ Len(new) = n
              /\ \A k \in 1..(n - 1) : new[k] = old[k]
              /\ new[n] = old[n] \o <<" ">>
                             \o cleanup_cell_text(lines[wikitable.i].text)]_vars

\* a returned row ends with a cell that a line of markup was merged into
C15_Witness ==
    /\ pc = "table_done"
    /\ \E j \in DOMAIN wikitable.rows :
           LET row == wikitable.rows[j]
           IN  Len(row) = 2 /\ row[1] = <<"a">> /\ row[2] = <<"a", " ", "x">>

\* the data cells that follow the open marker, cleaned, in line order
DataCells ==
    LET cells == SelectSeq(SubSeq(lines, 2, Len(lines)), LAMBDA l : l.kind = "cell")
    IN  [k \in DOMAIN cells |-> cleanup_cell_text(cells[k].text)]

\* the cells of the rows, row after row
RECURSIVE Flatten(_)
Flatten(rows) == IF rows = <<>> THEN <<>> ELSE Head(rows) \o Flatten(Tail(rows))

\* C16: when no close marker follows the open marker, parse_wikitable ends at
\* the end of the lines and every data cell after the open marker is a cell
\* of a returned row, the cells of the last row included: the returned rows
\* hold as many cells as there are data cells, each starting with the cleaned
\* text of its line.
C16_UnclosedTable ==
    (pc = "table_done" /\ \A k \in 2..Len(lines) : ~IsTableEnd(lines[k])) =>
        LET returned == Flatten(wikitable.rows)
        IN  /\ Len(returned) = Len(DataCells)
            /\ \A k \in DOMAIN returned :
                   SubSeq(returned[k], 1, Len(DataCells[k])) = DataCells[k]

-----------------------------------------------------------------------------
(* Specification SpecDiff: both differs on versions that differ in their   *)
(* entities and in their metadata sections                                 *)

\* the entity dicts of the versions
DiffEntityDicts ==
    {EmptyMap,
     EntityDict(<<EntityOf(MobRow), EntityOf(BatRow)>>),
     EntityDict(<<EntityOf([MobRow EXCEPT ![1] = <<"4">>]), EntityOf(BatRow)>>)}

\* the metadata maps of the versions
DiffMetadataMaps ==
    {EmptyMap} \cup
    {[k \in {MinecraftKey(<<"m","o","b">>), MinecraftKey(<<"b","a","t">>)} |->
         IF k = MinecraftKey(<<"m","o","b">>) THEN mob ELSE bat] :
        mob \in {SectionOf(NoKey, <<RegRow>>)},
        bat \in {SectionOf(NoKey, <<Reg2Row>>),
                 SectionOf(MinecraftKey(<<"m","o","b">>), <<Reg2Row>>)}}

DiffSnapshots ==
    {[entities |-> e, metadata |-> m] : e \in DiffEntityDicts, m \in DiffMetadataMaps}

\* analyze_complete.py:10-14, one file: the next version in sorted order
LoadVersion ==
    /\ pc = "load"
    /\ Len(version_data) < NumVersions
    /\ \E snapshot \in DiffSnapshots :
           version_data' = Append(version_data, snapshot)
    /\ UNCHANGED <<scanVars, baseVars, batchVars, pc, report, docVars, sortVars, parseVars, cellVars, tableVars>>

NextDiff == LoadVersion \/ AnalyzeEntities \/ AnalyzeMetadata

SpecDiff == InitDiff /\ [][NextDiff]_vars

\* the ids of the entries of a report, in the order of the report
ListedIds(r) == [i \in DOMAIN r.entries |-> r.entries[i].id]

\* what a version holds under an id: the entity entries for the first
\* report, the metadata sections for the second
HeldBy(v, which) ==
    IF which = 1 THEN version_data[v].entities ELSE version_data[v].metadata

\* the ids that at least one version holds
HeldIds(which) == UNION {DOMAIN HeldBy(v, which) : v \in DOMAIN version_data}

\* the differ's own test of an id
DetectedAsChanged(id, which) ==
    IF which = 1 THEN EntityHasChanges(version_data, id)
    ELSE MetadataHasChanges(version_data, id)

\* an id that every version holds with the same data
IsUnchanged(id, which) ==
    /\ \A v \in DOMAIN version_data : id \in DOMAIN HeldBy(v, which)
    /\ \A v, w \in DOMAIN version_data : HeldBy(v, which)[id] = HeldBy(w, which)[id]

\* C18: each report lists the ids the differ detected as changed and no
\* other, none of them unchanged, in ascending order of the ids; the first
\* number of its summary is the number of ids listed, the second the number
\* of ids some version holds, and the first is at most the second.
C18_ReportListing ==
    \A which \in DOMAIN report :
        LET r      == report[which]
            listed == ListedIds(r)
        IN  /\ Range(listed) = {id \in HeldIds(which) : DetectedAsChanged(id, which)}
            /\ \A id \in Range(listed) : ~IsUnchanged(id, which)
            /\ \A i, j \in DOMAIN listed : i < j => StrLess(listed[i], listed[j])
            /\ r.summary[1] = Len(listed)
            /\ r.summary[2] = Cardinality(HeldIds(which))
            /\ r.summary[1] <= r.summary[2]

\* both reports are written: the entity report lists one of two entities, the
\* other being unchanged, and the metadata report lists two sections
C18_Witness ==
    /\ pc = "analysed"
    /\ report[1].summary = <<1, 2>>
    /\ Len(report[2].entries) = 2
    /\ \E id \in HeldIds(1) : IsUnchanged(id, 1)

-----------------------------------------------------------------------------
(* Claims on the order of topological_sort, under SpecSort *)

\* a section the queue never held: its parent was never taken from the queue
IsLeftover(s) == dependencies[s] # {}

\* C19: the sections that are still unscheduled when the queue is empty come
\* in the returned list in the relative order they have in section_names.
C19_LeftoversInDiscoveryOrder ==
    pc = "sorted" =>
        \A s, t \in Range(section_names) :
            (/\ IsLeftover(s) /\ IsLeftover(t)
             /\ IndexOf(section_names, s) < IndexOf(section_names, t))
            => IndexOf(sorted_sections, s) < IndexOf(sorted_sections, t)

\* C20: the list a run returns is the only list topological_sort can return
\* for its section_names and inherit_map, and the children of one parent that
\* were queued when it was dequeued come in it in their order in section_names.
C20_SortDeterministic ==
    pc = "sorted" =>
        /\ topological_sort(section_names, inherit_map) = {sorted_sections}
        /\ \A s, t \in Range(section_names) :
              (/\ ~IsLeftover(s) /\ ~IsLeftover(t)
               /\ Get(inherit_map, s) # NoName
               /\ Get(inherit_map, s) = Get(inherit_map, t)
               /\ Get(inherit_map, s) \in Range(section_names)
               /\ IndexOf(section_names, s) < IndexOf(section_names, t))
              => IndexOf(sorted_sections, s) < IndexOf(sorted_sections, t)

-----------------------------------------------------------------------------
(* extract.py: parse_metadata_sections and extract as functions of the     *)
(* document.  The iteration order of the sets of topological_sort is not   *)
(* fixed by the document, so each is the set of its possible results.      *)

\* extract.py:228-229, from entry k of sorted on; order is the insertion
\* order of by_name_result
RECURSIVE ParseSections(_, _, _, _, _, _)
ParseSections(ls, sorted, k, imap, result, order) ==
    IF k > Len(sorted) THEN [result |-> result, order |-> order]
    ELSE LET r == _parse_section_by_name(ls, sorted[k], result, imap)
         IN  ParseSections(ls, sorted, k + 1, imap, r.result,
                           IF r.found /\ sorted[k] \notin Range(order)
                           THEN Append(order, sorted[k]) ELSE order)

\* extract.py:214-250
parse_metadata_sections(ls, n2e) ==
    LET c == collect_inheritance_relationships(ls)
    IN  {LET p == ParseSections(ls, sorted, 1, c.inherit_map, EmptyMap, <<>>)
         IN  ConvertKeys(SetInherits(p.result, c.inherit_map, n2e), p.order, n2e) :
            sorted \in topological_sort(c.section_names, c.inherit_map)}

\* extract.py:253-294: raised tells that the call ended with an exception
extract(ls) ==
    LET e == parse_entities_table(ls)
        start == FindMetadataStart(ls)
    IN  IF e.raised
        THEN {[raised |-> TRUE, entities |-> <<>>, metadata |-> EmptyMap]}
        ELSE IF start = 0
        THEN {[raised |-> FALSE, entities |-> e.entities, metadata |-> EmptyMap]}
        ELSE {[raised |-> FALSE, entities |-> e.entities, metadata |-> m] :
                m \in parse_metadata_sections(SubSeq(ls, start, Len(ls)),
                                              NameToEntityId(e.entities, 1, EmptyMap))}

-----------------------------------------------------------------------------
(* Specification SpecBatch: main.py, main on a source directory of          *)
(* documents, one pass of its loop per step.  The loop is sequential code  *)
(* that goes on until it ends, hence the fairness condition.               *)

\* how many documents the source directory may hold
MaxFiles == 3

\* the documents: an entity table; an entity table whose row has the type
\* cell U+00B2; an entity table and two sections of which the first is its
\* own parent and the parent of the second; a section with a table
BatchDocuments ==
    {Expand(<<"open", "ent1", "close">>),
     Expand(<<"open", "ent3", "close">>),
     Expand(<<"open", "ent1", "close">>) \o <<MetaHdrLine>>
        \o <<HeaderLine(NameUniverse[1]),
             InheritLine(NameUniverse[1], NameUniverse[1])>>
        \o Expand(<<"regtable">>)
        \o <<HeaderLine(NameUniverse[2]),
             InheritLine(NameUniverse[2], NameUniverse[1])>>
        \o Expand(<<"regtable">>),
     <<MetaHdrLine>> \o Expand(<<"hdr1", "regtable">>)}

\* a loop that an exception of process_file ends
NextFileAborting(index, raised) == IF raised THEN Len(txt_files) ELSE index + 1

\* main.py:132-138: the loop position after the pass on document number
\* index + 1, whether process_file raised or not
NextFile(index, raised) == index + 1

\* main.py:86, extract on the text of each document: what a call of it may
\* return
Extracted == [d \in BatchDocuments |-> extract(d)]

\* main.py:109-130: without a document main returns before the loop
StartBatch ==
    /\ pc = "main"
    /\ pc' = IF txt_files = <<>> THEN "returned" ELSE "batch"
    /\ UNCHANGED <<scanVars, baseVars, batchVars, docVars, sortVars, parseVars, diffVars, cellVars,
                   tableVars>>

\* main.py:132-138, one pass: process_file (lines 79-101) extracts and
\* writes the outputs of the document, or its exception is caught and
\* reported
ProcessFile ==
    /\ pc = "batch"
    /\ file_index < Len(txt_files)
    /\ \E data \in Extracted[txt_files[file_index + 1]] :
           /\ IF data.raised
              THEN /\ errors' = Append(errors, file_index + 1)
                   /\ UNCHANGED outputs
              ELSE /\ outputs' = Put(outputs, file_index + 1,
                                     [entities |-> data.entities,
                                      metadata |-> data.metadata])
                   /\ UNCHANGED errors
           /\ file_index' = NextFile(file_index, data.raised)
    /\ UNCHANGED <<scanVars, baseVars, pc, txt_files, docVars, sortVars, parseVars, diffVars, cellVars,
                   tableVars>>

\* main.py:140
EndBatch ==
    /\ pc = "batch"
    /\ file_index >= Len(txt_files)
    /\ pc' = "batch_done"
    /\ UNCHANGED <<scanVars, baseVars, batchVars, docVars, sortVars, parseVars, diffVars, cellVars,
                   tableVars>>

InitBatch ==
    /\ NothingScanned
    /\ NothingWalked
    /\ NoDocument /\ NothingSorted /\ NothingParsed /\ NothingDiffed
    /\ NothingCleaned /\ NothingTabled
    /\ pc = "main"
    /\ txt_files \in UNION {[1..n -> BatchDocuments] : n \in 0..MaxFiles}
    /\ file_index = 0
    /\ outputs = EmptyMap
    /\ errors = <<>>

NextBatch == StartBatch \/ ProcessFile \/ EndBatch

SpecBatch == InitBatch /\ [][NextBatch]_vars /\ WF_vars(NextBatch)

\* the documents on which extract raises
FailingFiles ==
    {k \in DOMAIN txt_files : \E data \in Extracted[txt_files[k]] : data.raised}

\* at the end of the loop every failing document is reported and has no
\* output, and every other document has its output, a snapshot that extract
\* gives for it
IsolatedAtEnd ==
    pc = "batch_done" =>
        /\ Range(errors) = FailingFiles
        /\ DOMAIN outputs = DOMAIN txt_files \ FailingFiles
        /\ \A k \in DOMAIN outputs :
               \E data \in Extracted[txt_files[k]] :
                   /\ ~data.raised
                   /\ outputs[k] = [entities |-> data.entities,
                                    metadata |-> data.metadata]

\* C13: the loop of main reaches its end whatever documents fail, and at its
\* end every failing document is reported and skipped, while every other
\* document, before or after a failing one, has its output.
C13_BatchIsolation ==
    /\ []IsolatedAtEnd
    /\ (pc = "batch" ~> pc = "batch_done")

\* three documents of which the second fails: it is reported and the first
\* and the third have their outputs
C13_Witness ==
    /\ pc = "batch_done"
    /\ Len(txt_files) = 3
    /\ errors = <<2>>
    /\ DOMAIN outputs = {1, 3}

\* C17: the snapshot written for a document is the only result extract has
\* for the text of the document, whatever documents are processed with it
\* and in whatever order.
C17_DocumentIndependence ==
    pc = "batch_done" =>
        \A k \in DOMAIN outputs :
            {[entities |-> data.entities, metadata |-> data.metadata] :
                data \in extract(txt_files[k])} = {outputs[k]}

-----------------------------------------------------------------------------
(* Specification SpecCollect: collect_inheritance_relationships, one line   *)
(* of metadata_lines per step; cursor is the number of lines gone through  *)

\* how many lines the document may hold
MaxCollectLines == 4

\* a header, plain text, and declarations for the first name: without a
\* parent, with one, with another, and two of them on one line
CollectLineChoices ==
    {HeaderLine(NameUniverse[1]),
     TextLine(<<"more">>),
     InheritLine(NameUniverse[1], NoName),
     InheritLine(NameUniverse[1], NameUniverse[2]),
     InheritLine(NameUniverse[1], NameUniverse[3]),
     InheritLine(NameUniverse[2], NameUniverse[1]),
     InheritTwiceLine(NameUniverse[1], NameUniverse[2], NameUniverse[3]),
     InheritTwiceLine(NameUniverse[1], NameUniverse[2], NoName)}

\* inheritance_utils.py:23-38, one pass of the loop
CollectLine ==
    /\ pc = "collect"
    /\ cursor < Len(metadata_lines)
    /\ inherit_map' = CollectInherit(metadata_lines[cursor + 1], inherit_map)
    /\ section_names' = CollectHeader(metadata_lines[cursor + 1], section_names)
    /\ cursor' = cursor + 1
    /\ UNCHANGED <<scanVars, baseVars, pc, batchVars, tableVars, cellVars, docVars, diffVars,
                   dependencies, queue, sorted_sections, by_name_result,
                   parse_order, base_of, rows_of, converted_result>>

\* inheritance_utils.py:40
CollectReturn ==
    /\ pc = "collect"
    /\ cursor = Len(metadata_lines)
    /\ pc' = "collected"
    /\ UNCHANGED <<scanVars, baseVars, batchVars, tableVars, cellVars, docVars, diffVars, sortVars,
                   parseVars>>

InitCollect ==
    /\ NothingScanned
    /\ NothingWalked
    /\ NothingBatched /\ NothingTabled /\ NothingCleaned
    /\ NothingSorted /\ NothingParsed /\ NothingDiffed
    /\ pc = "collect"
    /\ lines = <<>>
    /\ entities = <<>>
    /\ metadata_start = 0
    /\ name_to_entity_id = EmptyMap
    /\ metadata_lines \in UNION {[1..n -> CollectLineChoices] : n \in 0..MaxCollectLines}

NextCollect == CollectLine \/ CollectReturn

SpecCollect == InitCollect /\ [][NextCollect]_vars

\* the parents of the declarations written on a line, in the order written
DeclaredOn(l) == IF IsInherit(l) THEN <<l.parent>> \o l.more ELSE <<>>

\* the parents the first k lines declare for the child, in document order
RECURSIVE DeclaredFor(_, _)
DeclaredFor(child, k) ==
    IF k = 0 THEN <<>>
    ELSE DeclaredFor(child, k - 1)
         \o (IF metadata_lines[k].name = child THEN DeclaredOn(metadata_lines[k])
             ELSE <<>>)

\* C21: after any number of lines, the parent map holds for every child the
\* parent of the last declaration written for it so far (no parent when that
\* declaration has none), and no entry for a child without a declaration.
C21_LastDeclarationWins ==
    pc \in {"collect", "collected"} =>
        \A child \in Names :
            LET declared == DeclaredFor(child, cursor)
            IN  IF declared = <<>> THEN child \notin DOMAIN inherit_map
                ELSE /\ child \in DOMAIN inherit_map
                     /\ inherit_map[child] = declared[Len(declared)]

-----------------------------------------------------------------------------
(* Claims on the span of a section, under SpecSection *)

\* how many table rows begin on the lines of the section: the row separators
\* between its header and the next header or the end of the document
RowsWithin(section_name) ==
    LET span == _find_section_lines(metadata_lines, section_name)
    IN  Cardinality({k \in (span.start_line + 1)..(span.end_line - 1) :
                        IsRowSeparator(metadata_lines[k])})

\* C22: the rows that make the fields of a section are rows of the lines
\* between its header and the next header: the section never goes through
\* more rows than begin on its own lines, also when its table is not closed.
C22_SectionSpan ==
    \A s \in DOMAIN rows_of : Len(rows_of[s]) <= RowsWithin(s)

-----------------------------------------------------------------------------
(* Specification SpecBase: calculate_base_index, one pass of its loops per  *)
(* step, for a section of any parent map and any set of recorded sections. *)
(* The function is sequential code: each step is taken when it can be.     *)

\* a recorded section with n fields
RecordedSection(n) ==
    [inherits |-> <<>>, fields |-> [j \in 1..n |-> RowObj(RegRow, j - 1)]]

\* the result maps: any set of the names is recorded, the i-th name with i
\* fields
RecordedMaps ==
    {[s \in S |-> RecordedSection(IndexOf(NameUniverse, s))] : S \in SUBSET Names}

\* inheritance_utils.py:97-100, one pass of the while loop
WalkChain ==
    /\ pc = "base_chain"
    /\ ChainContinues(base_walk.current, base_walk.chain)
    /\ base_walk' = [base_walk EXCEPT
                        !.chain = Append(@, base_walk.current),
                        !.current = NextAncestor(inherit_map, base_walk.current)]
    /\ UNCHANGED <<scanVars, pc, batchVars, tableVars, cellVars, docVars, diffVars, sortVars,
                   parseVars>>

\* inheritance_utils.py:97 and 103: the while loop ends, the for loop starts
\* from the root, the last name of the chain
WalkChainEnd ==
    /\ pc = "base_chain"
    /\ ~ChainContinues(base_walk.current, base_walk.chain)
    /\ base_walk' = [base_walk EXCEPT !.k = Len(base_walk.chain)]
    /\ pc' = "base_sum"
    /\ UNCHANGED <<scanVars, batchVars, tableVars, cellVars, docVars, diffVars, sortVars,
                   parseVars>>

\* inheritance_utils.py:103-106, one pass of the for loop
WalkSum ==
    /\ pc = "base_sum"
    /\ base_walk.k >= 1
    /\ base_walk' = [base_walk EXCEPT
                        !.base_index = @ + FieldCount(base_walk.chain[base_walk.k],
                                                      by_name_result),
                        !.k = @ - 1]
    /\ UNCHANGED <<scanVars, pc, batchVars, tableVars, cellVars, docVars, diffVars, sortVars,
                   parseVars>>

\* inheritance_utils.py:108
WalkReturn ==
    /\ pc = "base_sum"
    /\ base_walk.k = 0
    /\ pc' = "base_done"
    /\ UNCHANGED <<scanVars, baseVars, batchVars, tableVars, cellVars, docVars, diffVars,
                   sortVars, parseVars>>

\* inheritance_utils.py:90-95
InitBase ==
    /\ NothingScanned
    /\ NothingBatched /\ NothingTabled /\ NothingCleaned
    /\ NoDocument /\ NothingDiffed
    /\ pc = "base_chain"
    /\ section_names = <<>>
    /\ dependencies = EmptyMap
    /\ queue = <<>>
    /\ sorted_sections = <<>>
    /\ inherit_map \in InheritMaps
    /\ cursor = 0
    /\ parse_order = <<>>
    /\ base_of = EmptyMap
    /\ rows_of = EmptyMap
    /\ converted_result = EmptyMap
    /\ by_name_result \in RecordedMaps
    /\ \E section_name \in Names :
           base_walk = [NoWalk EXCEPT !.section = section_name,
                                      !.current = Get(inherit_map, section_name)]

NextBase == WalkChain \/ WalkChainEnd \/ WalkSum \/ WalkReturn

SpecBase == InitBase /\ [][NextBase]_vars /\ WF_vars(NextBase)

\* the sum of the recorded field counts of a set of names
RECURSIVE RecordedCount(_)
RecordedCount(S) ==
    IF S = {} THEN 0
    ELSE LET n == CHOOSE n \in S : TRUE
         IN  (IF n \in DOMAIN by_name_result THEN Len(by_name_result[n].fields) ELSE 0)
             + RecordedCount(S \ {n})

\* no name is twice in the chain, and once the function has returned the
\* chain holds the ancestors of the section and the result is the sum of
\* their recorded field counts
WalkIsSound ==
    /\ pc \in {"base_chain", "base_sum", "base_done"} => IsInjective(base_walk.chain)
    /\ pc = "base_done" =>
          /\ Range(base_walk.chain) = Ancestors(inherit_map, base_walk.section)
          /\ base_walk.base_index =
                 RecordedCount(Ancestors(inherit_map, base_walk.section))
          /\ base_walk.base_index =
                 calculate_base_index(base_walk.section, inherit_map, by_name_result)

\* C23: calculate_base_index returns for every parent map, self-parents and
\* cycles included; it visits no ancestor twice, and it returns the sum of
\* the recorded field counts of the ancestors, 0 for one that is not
\* recorded.
C23_BaseIndexTerminates ==
    /\ []WalkIsSound
    /\ (pc = "base_chain" ~> pc = "base_done")

\* the section is on a cycle of three names, two of them recorded, and the
\* function has returned the sum of their counts
C23_Witness ==
    /\ pc = "base_done"
    /\ Len(base_walk.chain) = 3
    /\ base_walk.section \in Range(base_walk.chain)
    /\ Cardinality(DOMAIN by_name_result \cap Range(base_walk.chain)) = 2
    /\ base_walk.base_index > 0

-----------------------------------------------------------------------------
(* Claims on cycles and dangling parents, under Spec *)

\* C24: a section that lies on a cycle of the parent map is extracted with
\* base index 0, whichever member of the cycle is extracted first.
C24_CycleMembersAreRoots ==
    \A s \in DOMAIN base_of : OnCycle(inherit_map, s) => base_of[s] = 0

\* the declared parent of the section is not the name of a section
HasDanglingParent(s) ==
    /\ Get(inherit_map, s) # NoName
    /\ Get(inherit_map, s) \notin Range(section_names)

\* the declared parent of the section is the name of a section
HasDependency(s) == Get(inherit_map, s) \in Range(section_names)

\* C25: a section whose declared parent is not the name of a section is
\* sorted before every section that has a dependency, and it is extracted
\* with base index 0: neither the dangling parent nor what lies behind it
\* adds to it.
C25_DanglingParentIsNoDependency ==
    \A s \in Range(sorted_sections) :
        HasDanglingParent(s) =>
            /\ \A t \in Range(sorted_sections) :
                   HasDependency(t) =>
                       IndexOf(sorted_sections, s) < IndexOf(sorted_sections, t)
            /\ s \in DOMAIN base_of => base_of[s] = 0

-----------------------------------------------------------------------------
(* Claims on the steps of _parse_section_by_name, under SpecSection *)

\* the sections the step extracts: those that get their rows by it
ExtractedByStep == DOMAIN rows_of' \ DOMAIN rows_of

\* C26: when the first row of a section is a two-cell (0xHEX, text) row, the
\* step that extracts the section records it as a field of that section, with
\* the base index of the section and the text as its type and default, and
\* the step leaves the entries of the sections extracted before as they were.
C26_CursorResetPerSection ==
    [][\A s \in ExtractedByStep :
          (rows_of'[s] # <<>> /\ FlagShaped(rows_of'[s][1])) =>
              /\ by_name_result'[s].fields # <<>>
              /\ by_name_result'[s].fields[1].index = base_of'[s]
              /\ by_name_result'[s].fields[1].type = rows_of'[s][1][2]
              /\ by_name_result'[s].fields[1].default = rows_of'[s][1][2]
              /\ \A t \in DOMAIN by_name_result \ {s} :
                     by_name_result'[t] = by_name_result[t]]_vars

\* the child section, extracted after its parent, begins with the row
\* (0x01, Is on fire), which is its field 1; the one field of the parent has
\* no flag
C26_Witness ==
    /\ NameUniverse[2] \in DOMAIN rows_of
    /\ rows_of[NameUniverse[2]] # <<>>
    /\ rows_of[NameUniverse[2]][1] = Flag1Row
    /\ by_name_result[NameUniverse[2]].fields[1].index = 1
    /\ Len(by_name_result[NameUniverse[1]].fields) = 1
    /\ by_name_result[NameUniverse[1]].fields[1].bitmask = <<>>

\* C27: a step that extracts a section changes the entry of that section
\* only: every other entry of the result map stays as it was, and the
\* section gets one field per regular row of its own, none from its parent.
C27_SectionFrame ==
    [][\A s \in ExtractedByStep :
          /\ DOMAIN by_name_result' = DOMAIN by_name_result \cup {s}
          /\ \A t \in DOMAIN by_name_result \ {s} :
                 by_name_result'[t] = by_name_result[t]
          /\ Len(by_name_result'[s].fields) =
                 Cardinality(RegularPositions(rows_of'[s]))]_vars

\* the child section has been extracted with two fields based at 1 and its
\* parent still has its one field
C27_Witness ==
    /\ NameUniverse[2] \in DOMAIN rows_of
    /\ base_of[NameUniverse[2]] = 1
    /\ Len(by_name_result[NameUniverse[2]].fields) = 2
    /\ Len(by_name_result[NameUniverse[1]].fields) = 1
    /\ by_name_result[NameUniverse[1]].fields[1].index = 0

-----------------------------------------------------------------------------
(* Specification SpecScan: the loops that scan a document for tables, the   *)
(* one of parse_entities_table (extract.py:74-107) and the one of          *)
(* _parse_section_by_name (lines 154-211), with the loop of parse_wikitable *)
(* inside, one pass of a loop per step.  The code is sequential: a step is *)
(* taken when there is one, hence the fairness condition.                  *)

\* how many items a scanned document may hold
MaxScanItems == 4

ScanItems == {"open", "close", "ent1", "ent1b", "hdr"}

\* the first section of the scanned documents
ScanSection == NameUniverse[1]

\* parse_entities_table is given the whole document; _parse_section_by_name
\* scans the lines between the header of its section and the next header
ScanStart(caller, ls) ==
    IF caller = "entities"
    THEN [caller |-> caller, i |-> 1, end_line |-> Len(ls) + 1, st |-> <<>>]
    ELSE LET span == _find_section_lines(ls, ScanSection)
         IN  [caller |-> caller, i |-> span.start_line + 1, end_line |-> span.end_line,
              st |-> [fields |-> <<>>, last_main_row |-> 0, index_counter |-> 0 - 1]]

\* extract.py:107 and 159-161, 211: a line that opens no table
ScanLine ==
    /\ pc = "scan"
    /\ scan.i < scan.end_line
    /\ ~IsTableStart(lines[scan.i])
    /\ scan' = [scan EXCEPT !.i = @ + 1]
    /\ UNCHANGED <<pc, baseVars, batchVars, tableVars, cellVars, docVars, sortVars,
                   parseVars, diffVars>>

\* extract.py:78-79 and 164-165, and 29-35: the call of parse_wikitable
ScanOpen ==
    /\ pc = "scan"
    /\ scan.i < scan.end_line
    /\ IsTableStart(lines[scan.i])
    /\ wikitable' = [i |-> scan.i + 1] @@ NoTable
    /\ pc' = "scan_table"
    /\ UNCHANGED <<scanVars, baseVars, batchVars, cellVars, docVars, sortVars,
                   parseVars, diffVars>>

\* extract.py:37-64, one pass of the while loop of parse_wikitable
ScanTableLine ==
    /\ pc = "scan_table"
    /\ ~wikitable.closed
    /\ wikitable.i <= Len(lines)
    /\ \E after \in {WikitableStep(lines[wikitable.i], wikitable)} :
           wikitable' = IF after.closed THEN after
                        ELSE [after EXCEPT !.i = @ + 1]
    /\ UNCHANGED <<pc, scanVars, baseVars, batchVars, cellVars, docVars, sortVars,
                   parseVars, diffVars>>

\* extract.py:66, then 81-104 or 167-208: the table is returned, the caller
\* goes through its rows and resumes at the returned index
ScanTableReturn ==
    /\ pc = "scan_table"
    /\ wikitable.closed \/ wikitable.i > Len(lines)
    /\ \E table \in {TableResult(wikitable.i, wikitable)} :
           IF scan.caller = "entities"
           THEN \E r \in {EntityRows(entities, table.rows, 1)} :
                    IF r.raised
                    THEN /\ pc' = "raised"
                         /\ UNCHANGED <<scan, entities>>
                    ELSE /\ entities' = r.entities
                         /\ scan' = [scan EXCEPT !.i = table.next]
                         /\ pc' = "scan"
           ELSE /\ scan' = [scan EXCEPT !.i = table.next,
                                        !.st = RowLoop(@, table.rows, 1)]
                /\ pc' = "scan"
                /\ UNCHANGED entities
    /\ UNCHANGED <<baseVars, batchVars, tableVars, cellVars, lines, metadata_lines,
                   name_to_entity_id, metadata_start, sortVars, parseVars, diffVars>>

\* extract.py:109 and the end of the loop of line 154
ScanEnd ==
    /\ pc = "scan"
    /\ scan.i >= scan.end_line
    /\ pc' = "scan_done"
    /\ UNCHANGED <<scanVars, baseVars, batchVars, tableVars, cellVars, docVars,
                   sortVars, parseVars, diffVars>>

InitScan ==
    /\ NothingWalked /\ NothingBatched /\ NothingTabled /\ NothingCleaned
    /\ NothingSorted /\ NothingParsed /\ NothingDiffed
    /\ pc = "scan"
    /\ \E items \in ItemSeqs(ScanItems, MaxScanItems) :
           lines = <<HeaderLine(ScanSection)>> \o Expand(items)
    /\ metadata_lines = <<>>
    /\ name_to_entity_id = EmptyMap
    /\ entities = <<>>
    /\ metadata_start = 0
    /\ \E caller \in {"entities", "section"} : scan = ScanStart(caller, lines)

NextScan == ScanLine \/ ScanOpen \/ ScanTableLine \/ ScanTableReturn \/ ScanEnd

SpecScan == InitScan /\ [][NextScan]_vars /\ WF_vars(NextScan)

\* the close markers after the line
CloseMarkersAfter(start) == {k \in (start + 1)..Len(lines) : IsTableEnd(lines[k])}

\* the least element of a set of line numbers
FirstOf(S) == CHOOSE k \in S : \A m \in S : k <= m

\* the index a call of parse_wikitable on the open marker at start returns:
\* after the first close marker, or past the end of the lines without one
IsNextIndex(start, next) ==
    /\ next > start
    /\ IF CloseMarkersAfter(start) # {}
       THEN next = FirstOf(CloseMarkersAfter(start)) + 1
       ELSE next > Len(lines)

\* C28: every call of parse_wikitable returns, with an index greater than the
\* index of its open marker, the one after the close marker when there is
\* one; and every loop that resumes at the returned index reaches its end.
C28_ScanProgress ==
    /\ [][(pc = "scan_table" /\ pc' = "scan") => IsNextIndex(scan.i, scan'.i)]_vars
    /\ (pc = "scan_table" ~> pc = "scan")
    /\ (pc = "scan" ~> pc = "scan_done")

\* the scan has ended after a table without a close marker and a table with
\* one
C28_Witness ==
    /\ pc = "scan_done"
    /\ scan.caller = "section"
    /\ scan.i = Len(lines) + 2
    /\ \E k \in DOMAIN lines : IsTableEnd(lines[k])
    /\ Len(scan.st.fields) = 1

-----------------------------------------------------------------------------
(* The keys of the result of parse_metadata_sections *)

\* C29: the map returned by parse_metadata_sections has one entry per section
\* that was extracted: two distinct section names never get the same key,
\* from name_to_entity_id or from the snake-case fallback.
C29_NoSectionLostInConversion ==
    pc = "done" =>
        /\ Cardinality(DOMAIN converted_result) = Cardinality(DOMAIN by_name_result)
        /\ \A s, t \in DOMAIN by_name_result :
               s # t => KeyOf(s, name_to_entity_id) # KeyOf(t, name_to_entity_id)

-----------------------------------------------------------------------------
(* The entity map of parse_entities_table, under SpecScan *)

\* the rows of five or more cells the tables of the document hold, in the
\* order of the document: those of the document with its last table closed
DocumentEntityRows == EntityRowsOf(lines \o <<CloseLine>>)

\* the entity id a row carries
RowId(row) == StripCodeTags(row[5])

\* C30: when parse_entities_table has returned, the entity map holds one
\* entry per distinct entity id carried by a row of five or more cells, in
\* one table or in several, and the entry of an id holds the values of the
\* last row that carries it.
C30_LastRowOfAnIdWins ==
    (pc = "scan_done" /\ scan.caller = "entities") =>
        LET rows == DocumentEntityRows
        IN  /\ Len(entities) = Cardinality({RowId(rows[j]) : j \in DOMAIN rows})
            /\ \A j \in DOMAIN rows :
                   (\A m \in (j + 1)..Len(rows) : RowId(rows[m]) # RowId(rows[j]))
                       => \E k \in DOMAIN entities : entities[k] = EntityOf(rows[j])

====
